---- MODULE Spec2Model ----
(***************************************************************************)
(* A model of no_std_io: bounds-checked readers and writers over byte      *)
(* buffers, the endian codec of the fixed-width scalars, the error-offset  *)
(* rewriting helper and the struct codecs generated by the derive macros.  *)
(*                                                                         *)
(* A byte buffer is a sequence of naturals below 256.  Rust's 0-based      *)
(* offset o is the TLA+ index o + 1.  usize is UsizeBits wide.             *)
(***************************************************************************)
EXTENDS Integers, Sequences, FiniteSets, TLC

VARIABLES
    buf,              \* the bytes of the buffer under test
    growable,         \* TRUE: Vec<u8>; FALSE: array / slice of fixed capacity
    base,             \* address of byte 0 of the buffer, modulo 8
    overflow_checks,  \* build profile: TRUE when arithmetic overflow panics
    native_le,        \* TRUE on a little-endian host
    cursor,           \* index of the stream over the buffer (Cursor::get_index)
    hist              \* the calls made so far, oldest first, with their outcomes

vars == <<buf, growable, base, overflow_checks, native_le, cursor, hist>>

(***************************************************************************)
(* Bounds of the model.                                                    *)
(***************************************************************************)
UsizeBits == 6
MaxLen == 8
MaxDst == 13
MaxCtx == 3

USIZE_MAX == 2 ^ UsizeBits - 1

(***************************************************************************)
(* usize arithmetic.  An overflowing + or - panics when the build has      *)
(* overflow checks and wraps otherwise.  PANIC stands for the panic.       *)
(***************************************************************************)
PANIC == 0 - 1

UAdd(a, b) ==
    IF a = PANIC \/ b = PANIC THEN PANIC
    ELSE IF a + b <= USIZE_MAX THEN a + b
    ELSE IF overflow_checks THEN PANIC
    ELSE (a + b) % (USIZE_MAX + 1)

USub(a, b) ==
    IF a = PANIC \/ b = PANIC THEN PANIC
    ELSE IF a >= b THEN a - b
    ELSE IF overflow_checks THEN PANIC
    ELSE (a - b + USIZE_MAX + 1) % (USIZE_MAX + 1)

(***************************************************************************)
(* Outcomes of a call: a value, an error value, or a panic.                *)
(***************************************************************************)
Ok(v) == [tag |-> "Ok", val |-> v]
Err(e) == [tag |-> "Err", err |-> e]
Panic == [tag |-> "Panic"]

IsOk(r) == r.tag = "Ok"
IsErr(r) == r.tag = "Err"

(***************************************************************************)
(* error.rs: the error kinds.                                              *)
(***************************************************************************)
InvalidSize(w, o, d) ==
    [kind |-> "InvalidSize", wanted_size |-> w, offset |-> o, data_len |-> d]

InvalidAlignment(w, s, o) ==
    [kind |-> "InvalidAlignment", wanted_size |-> w, source_size |-> s,
     source_offset |-> o]

InvalidRead(m) == [kind |-> "InvalidRead", message |-> m]

InvalidWrite(m) == [kind |-> "InvalidWrite", message |-> m]

(***************************************************************************)
(* reader.rs builds its size error from the bytes left after the offset.   *)
(***************************************************************************)
InvalidSizeAvailable(w, a) ==
    [kind |-> "InvalidSize", wanted_size |-> w, available_size |-> a]

(***************************************************************************)
(* error.rs: add_error_context.  An InvalidSize error gets the caller's    *)
(* offset added and the caller's data length; anything else is returned    *)
(* as it came.                                                             *)
(***************************************************************************)
\* A variant that adds the offset but keeps the inner data length.
add_error_context_keeps_len(error, offset, data_len) ==
    IF error.tag = "Err" /\ error.err.kind = "InvalidSize"
    THEN IF UAdd(offset, error.err.offset) = PANIC THEN Panic
         ELSE Err(InvalidSize(error.err.wanted_size,
                              UAdd(offset, error.err.offset),
                              error.err.data_len))
    ELSE error

add_error_context(error, offset, data_len) ==
    IF error.tag = "Err" /\ error.err.kind = "InvalidSize"
    THEN IF UAdd(offset, error.err.offset) = PANIC THEN Panic
         ELSE Err(InvalidSize(error.err.wanted_size,
                              UAdd(offset, error.err.offset),
                              data_len))
    ELSE error

(***************************************************************************)
(* The fixed-width scalar types: mem::size_of and mem::align_of.           *)
(***************************************************************************)
ScalarNames == {"bool", "u8", "i8", "u16", "i16", "u32", "i32", "u64", "i64"}

size_of(name) ==
    CASE name \in {"bool", "u8", "i8"} -> 1
      [] name \in {"u16", "i16"} -> 2
      [] name \in {"u32", "i32"} -> 4
      [] name \in {"u64", "i64"} -> 8
      [] name = "unit" -> 0

align_of(name) == IF name = "unit" THEN 1 ELSE size_of(name)

IsSigned(name) == name \in {"i8", "i16", "i32", "i64"}

(***************************************************************************)
(* Values.  A scalar value is the sequence of its 16-bit limbs, least      *)
(* significant first (one 8-bit limb for the one-byte types); the top limb *)
(* of a signed type is signed.  A bool is the limb 0 or 1.  The unit value *)
(* is the empty sequence.  A struct value is the sequence of its fields'   *)
(* values.                                                                 *)
(***************************************************************************)
LimbBits(name) == IF size_of(name) = 1 THEN 8 ELSE 16

NLimbs(name) == IF size_of(name) = 1 THEN 1 ELSE size_of(name) \div 2

\* The bits of limb j of v as an unsigned number (two's complement).
LimbPattern(name, v, j) ==
    IF v[j] < 0 THEN v[j] + 2 ^ LimbBits(name) ELSE v[j]

\* Byte k (0 = least significant) of the value.
ByteOf(name, v, k) ==
    (LimbPattern(name, v, (k \div 2) + 1) \div (256 ^ (k % 2))) % 256

\* The limb whose bits are p; the top limb of a signed type is negative
\* when its sign bit is set.
LimbOf(name, j, p) ==
    IF IsSigned(name) /\ j = NLimbs(name) /\ p >= 2 ^ (LimbBits(name) - 1)
    THEN p - 2 ^ LimbBits(name)
    ELSE p

\* core: to_le_bytes / to_be_bytes / from_le_bytes / from_be_bytes.
to_le_bytes(name, v) == [i \in 1..size_of(name) |-> ByteOf(name, v, i - 1)]

\* A variant that lays the bytes out least significant first.
to_be_bytes_unreversed(name, v) ==
    [i \in 1..size_of(name) |-> ByteOf(name, v, i - 1)]

to_be_bytes(name, v) ==
    [i \in 1..size_of(name) |-> ByteOf(name, v, size_of(name) - i)]

from_le_bytes(name, b) ==
    [j \in 1..NLimbs(name) |->
        LimbOf(name, j, IF size_of(name) = 1 THEN b[1]
                        ELSE b[2 * j - 1] + 256 * b[2 * j])]

from_be_bytes(name, b) ==
    [j \in 1..NLimbs(name) |->
        LimbOf(name, j, IF size_of(name) = 1 THEN b[1]
                        ELSE b[size_of(name) - 2 * j + 2]
                             + 256 * b[size_of(name) - 2 * j + 1])]

(***************************************************************************)
(* Type descriptors.  A field of a derived struct is its pad_before and    *)
(* its type.                                                               *)
(***************************************************************************)
Scalar(name) == [k |-> "scalar", name |-> name, fields |-> <<>>]

Unit == [k |-> "unit", name |-> "unit", fields |-> <<>>]

Struct(fields) == [k |-> "struct", name |-> "struct", fields |-> fields]

Field(pad, ty) == [pad |-> pad, ty |-> ty]

\* A type with an EndianWrite impl written by hand.
Custom(name) == [k |-> "custom", name |-> name, fields |-> <<>>]

(***************************************************************************)
(* endian/read.rs: EndianRead for the scalars.  A ReadOutput is the        *)
(* decoded data and the number of bytes read.                              *)
(***************************************************************************)
ReadOutput(data, read_bytes) == [data |-> data, read_bytes |-> read_bytes]

\* A variant that also refuses a slice of exactly the size of the type.
int_try_read_needs_spare(name, bytes, le) ==
    IF size_of(name) >= Len(bytes)
    THEN Err(InvalidSize(size_of(name), 0, Len(bytes)))
    ELSE Ok(ReadOutput(
            IF le THEN from_le_bytes(name, SubSeq(bytes, 1, size_of(name)))
                  ELSE from_be_bytes(name, SubSeq(bytes, 1, size_of(name))),
            size_of(name)))

\* try_read_le / try_read_be of u8 .. i64.
int_try_read(name, bytes, le) ==
    IF size_of(name) > Len(bytes)
    THEN Err(InvalidSize(size_of(name), 0, Len(bytes)))
    ELSE Ok(ReadOutput(
            IF le THEN from_le_bytes(name, SubSeq(bytes, 1, size_of(name)))
                  ELSE from_be_bytes(name, SubSeq(bytes, 1, size_of(name))),
            size_of(name)))

\* try_read_le / try_read_be of bool: both read a u8 and test it against 0.
bool_try_read(bytes) ==
    LET result == int_try_read("u8", bytes, TRUE)
    IN  IF IsOk(result)
        THEN Ok(ReadOutput(IF result.val.data # <<0>> THEN <<1>> ELSE <<0>>,
                           result.val.read_bytes))
        ELSE result

scalar_try_read(name, bytes, le) ==
    IF name = "bool" THEN bool_try_read(bytes) ELSE int_try_read(name, bytes, le)

(***************************************************************************)
(* endian/write.rs: EndianWrite for the scalars and the unit value.  A     *)
(* write yields its result and the destination as it leaves it.            *)
(***************************************************************************)
WriteOutput(res, out) == [res |-> res, out |-> out]

\* dst[..n].copy_from_slice(bytes)
copy_from_slice(dst, bytes) ==
    [i \in 1..Len(dst) |-> IF i <= Len(bytes) THEN bytes[i] ELSE dst[i]]

scalar_bytes(name, v, le) ==
    IF name = "bool" THEN <<v[1]>>
    ELSE IF le THEN to_le_bytes(name, v) ELSE to_be_bytes(name, v)

scalar_try_write(name, v, dst, le) ==
    IF size_of(name) > Len(dst)
    THEN WriteOutput(Err(InvalidSize(size_of(name), 0, Len(dst))), dst)
    ELSE WriteOutput(Ok(Len(scalar_bytes(name, v, le))),
                     copy_from_slice(dst, scalar_bytes(name, v, le)))

unit_try_write(dst) == WriteOutput(Ok(0), dst)

(***************************************************************************)
(* writer.rs, tests: CustomErrorTest and OffsetErrorTest, two encoders of  *)
(* declared size 0 that always fail; only their little-endian side is      *)
(* implemented.                                                            *)
(***************************************************************************)
custom_get_size(name) == 0

custom_try_write(name, dst, le) ==
    IF ~le THEN WriteOutput(Panic, dst)
    ELSE IF name = "OffsetErrorTest"
    THEN WriteOutput(Err(InvalidSize(8, 1, 0)), dst)
    ELSE WriteOutput(Err(InvalidRead("Custom error!")), dst)

(***************************************************************************)
(* stream/cursor.rs and stream_container.rs.  A stream is a buffer with a  *)
(* cursor; vec tells whether the buffer is a Vec<u8>.                      *)
(***************************************************************************)
StreamContainer_new(raw, vec) == [raw |-> raw, cursor |-> 0, vec |-> vec]

increment_by(index, count) == UAdd(index, count)

(***************************************************************************)
(* EndianWrite::get_size: a scalar's width, 0 for the unit value, and for  *)
(* a derived struct the sum of each field's pad_before and get_size.       *)
(***************************************************************************)
RECURSIVE get_size(_, _)
RECURSIVE derive_get_size_from(_, _, _, _)

\* A variant that leaves the padding of field i out of the sum.
derive_get_size_from_no_pad(fields, v, i, size) ==
    IF i > Len(fields) THEN size
    ELSE derive_get_size_from(fields, v, i + 1,
                              UAdd(size, get_size(fields[i].ty, v[i])))

derive_get_size_from(fields, v, i, size) ==
    IF i > Len(fields) THEN size
    ELSE derive_get_size_from(fields, v, i + 1,
            UAdd(UAdd(size, fields[i].pad), get_size(fields[i].ty, v[i])))

derive_get_size(fields, v) == derive_get_size_from(fields, v, 1, 0)

get_size(ty, v) ==
    CASE ty.k = "scalar" -> size_of(ty.name)
      [] ty.k = "unit" -> 0
      [] ty.k = "struct" -> derive_get_size(ty.fields, v)
      [] ty.k = "custom" -> custom_get_size(ty.name)

(***************************************************************************)
(* writer.rs: the Writer of a buffer of fixed capacity, and the struct     *)
(* encoder the derive macro generates, which streams the fields into the   *)
(* destination slice.                                                      *)
(***************************************************************************)
RECURSIVE try_write(_, _, _, _)
RECURSIVE derive_try_write_from(_, _, _, _, _)

get_mut_slice_at_offset(data, offset) ==
    IF offset >= Len(data) THEN <<>> ELSE SubSeq(data, offset + 1, Len(data))

\* The buffer with its tail from offset replaced by the written slice.
PutSliceAtOffset(data, offset, slice) ==
    IF offset >= Len(data) THEN data ELSE SubSeq(data, 1, offset) \o slice

\* Writer::write_le / write_be of a slice or array.
Writer_write_endian(data, offset, ty, v, le) ==
    LET w == try_write(ty, v, get_mut_slice_at_offset(data, offset), le)
    IN  WriteOutput(add_error_context(w.res, offset, Len(data)),
                    PutSliceAtOffset(data, offset, w.out))

\* StreamWriter::write_stream_le / write_stream_be on a container of a slice:
\* the stream after the call, and the result.
\* A variant that writes and leaves the cursor where it was.
write_stream_endian_no_advance(stream, ty, v, le) ==
    LET w == Writer_write_endian(stream.raw, stream.cursor, ty, v, le)
    IN  [res |-> w.res,
         stream |-> [stream EXCEPT !.raw = w.out]]

write_stream_endian(stream, ty, v, le) ==
    LET w == Writer_write_endian(stream.raw, stream.cursor, ty, v, le)
    IN  [res |-> w.res,
         stream |-> [stream EXCEPT !.raw = w.out,
                        !.cursor = IF IsOk(w.res)
                                   THEN increment_by(stream.cursor, w.res.val)
                                   ELSE stream.cursor]]

\* A variant that puts the destination back as it was before the field
\* that failed.
derive_try_write_from_restoring(fields, v, i, stream, le) ==
    IF stream.cursor = PANIC THEN WriteOutput(Panic, stream.raw)
    ELSE IF i > Len(fields) THEN WriteOutput(Ok(stream.cursor), stream.raw)
    ELSE LET padded == [stream EXCEPT
                           !.cursor = increment_by(stream.cursor, fields[i].pad)]
         IN  IF padded.cursor = PANIC THEN WriteOutput(Panic, stream.raw)
             ELSE LET w == write_stream_endian(padded, fields[i].ty, v[i], le)
                  IN  IF IsOk(w.res)
                      THEN derive_try_write_from(fields, v, i + 1, w.stream, le)
                      ELSE WriteOutput(w.res, stream.raw)

\* Fields i.. of the generated try_write_le / try_write_be.
derive_try_write_from(fields, v, i, stream, le) ==
    IF stream.cursor = PANIC THEN WriteOutput(Panic, stream.raw)
    ELSE IF i > Len(fields) THEN WriteOutput(Ok(stream.cursor), stream.raw)
    ELSE LET padded == [stream EXCEPT
                           !.cursor = increment_by(stream.cursor, fields[i].pad)]
         IN  IF padded.cursor = PANIC THEN WriteOutput(Panic, stream.raw)
             ELSE LET w == write_stream_endian(padded, fields[i].ty, v[i], le)
                  IN  IF IsOk(w.res)
                      THEN derive_try_write_from(fields, v, i + 1, w.stream, le)
                      ELSE WriteOutput(w.res, w.stream.raw)

derive_try_write(fields, v, dst, le) ==
    derive_try_write_from(fields, v, 1, StreamContainer_new(dst, FALSE), le)

try_write(ty, v, dst, le) ==
    CASE ty.k = "scalar" -> scalar_try_write(ty.name, v, dst, le)
      [] ty.k = "unit" -> unit_try_write(dst)
      [] ty.k = "struct" -> derive_try_write(ty.fields, v, dst, le)
      [] ty.k = "custom" -> custom_try_write(ty.name, dst, le)

(***************************************************************************)
(* writer.rs: the Writer of a Vec<u8>, which grows before it writes.       *)
(***************************************************************************)
Zeros(n) == [i \in 1..n |-> 0]

\* Vec::resize(new_len, 0) when new_len exceeds the length.
resize_if_longer(data, new_len) ==
    IF new_len > Len(data) THEN data \o Zeros(new_len - Len(data)) ELSE data

\* A variant that also refuses a write that ends at the end of the buffer.
get_sized_mut_slice_strict_end(data, offset, length) ==
    LET offset_end == UAdd(offset, length)
    IN  IF offset_end = PANIC THEN Panic
        ELSE IF Len(data) <= offset_end
        THEN Err(InvalidSize(length, offset, Len(data)))
        ELSE IF offset > offset_end THEN Panic
        ELSE Ok(SubSeq(data, offset + 1, offset_end))

\* Writer::get_sized_mut_slice of a slice or array: the slice or the error.
get_sized_mut_slice(data, offset, length) ==
    LET offset_end == UAdd(offset, length)
    IN  IF offset_end = PANIC THEN Panic
        ELSE IF Len(data) < offset_end
        THEN Err(InvalidSize(length, offset, Len(data)))
        ELSE IF offset > offset_end THEN Panic
        ELSE Ok(SubSeq(data, offset + 1, offset_end))

\* Writer::write_bytes of a slice or array.
Writer_write_bytes(data, offset, bytes) ==
    LET slice == get_sized_mut_slice(data, offset, Len(bytes))
    IN  IF IsOk(slice)
        THEN WriteOutput(Ok(Len(bytes)),
                 [i \in 1..Len(data) |->
                     IF i > offset /\ i <= offset + Len(bytes)
                     THEN bytes[i - offset] ELSE data[i]])
        ELSE WriteOutput(slice, data)

\* safe_transmute::transmute_one_to_bytes: the bytes of the value as the host
\* lays them out.
transmute_one_to_bytes(name, v, host_le) ==
    IF host_le THEN to_le_bytes(name, v) ELSE to_be_bytes(name, v)

\* Writer::write of a slice or array.
Writer_write(data, offset, name, v, host_le) ==
    Writer_write_bytes(data, offset, transmute_one_to_bytes(name, v, host_le))

\* Writer::write_bytes of a Vec<u8>, through its get_sized_mut_slice.
Vec_write_bytes(data, offset, bytes) ==
    LET offset_end == UAdd(offset, Len(bytes))
        grown == resize_if_longer(data, offset_end)
    IN  IF offset_end = PANIC THEN WriteOutput(Panic, data)
        ELSE IF offset > offset_end THEN WriteOutput(Panic, grown)
        ELSE WriteOutput(Ok(Len(bytes)),
                 [i \in 1..Len(grown) |->
                     IF i > offset /\ i <= offset_end
                     THEN bytes[i - offset] ELSE grown[i]])

\* Writer::write_le / write_be of a Vec<u8>.
\* A variant that reports the length the Vec had before it grew.
Vec_write_endian_old_len(data, offset, ty, v, le) ==
    LET offset_end == UAdd(offset, get_size(ty, v))
        grown == resize_if_longer(data, offset_end)
    IN  IF offset_end = PANIC THEN WriteOutput(Panic, data)
        ELSE IF offset > Len(grown) THEN WriteOutput(Panic, grown)
        ELSE LET w == try_write(ty, v, SubSeq(grown, offset + 1, Len(grown)), le)
             IN  WriteOutput(add_error_context(w.res, offset, Len(data)),
                             SubSeq(grown, 1, offset) \o w.out)

\* A variant that writes into the Vec as into a slice, without resizing.
Vec_write_endian_no_resize(data, offset, ty, v, le) ==
    Writer_write_endian(data, offset, ty, v, le)

Vec_write_endian(data, offset, ty, v, le) ==
    LET offset_end == UAdd(offset, get_size(ty, v))
        grown == resize_if_longer(data, offset_end)
    IN  IF offset_end = PANIC THEN WriteOutput(Panic, data)
        ELSE IF offset > Len(grown) THEN WriteOutput(Panic, grown)
        ELSE LET w == try_write(ty, v, SubSeq(grown, offset + 1, Len(grown)), le)
             IN  WriteOutput(add_error_context(w.res, offset, Len(grown)),
                             SubSeq(grown, 1, offset) \o w.out)

(***************************************************************************)
(* The Reader entry points the stream reader calls.                        *)
(***************************************************************************)
RECURSIVE try_read(_, _, _)
RECURSIVE derive_try_read_from(_, _, _, _, _)

get_slice_at_offset(data, offset) ==
    IF offset >= Len(data) THEN <<>> ELSE SubSeq(data, offset + 1, Len(data))

\* Reader::read_le_with_output / read_be_with_output.
read_with_output(data, offset, ty, le) ==
    add_error_context(try_read(ty, get_slice_at_offset(data, offset), le),
                      offset, Len(data))

(***************************************************************************)
(* stream/reader.rs: read_stream_le / read_stream_be, and the struct       *)
(* decoder the derive macro generates.                                     *)
(***************************************************************************)
\* A variant that reads and leaves the cursor where it was.
read_stream_endian_no_advance(stream, ty, le) ==
    LET r == read_with_output(stream.raw, stream.cursor, ty, le)
    IN  [res |-> IF IsOk(r) THEN Ok(r.val.data) ELSE r,
         stream |-> stream]

read_stream_endian(stream, ty, le) ==
    LET r == read_with_output(stream.raw, stream.cursor, ty, le)
    IN  [res |-> IF IsOk(r) THEN Ok(r.val.data) ELSE r,
         stream |-> [stream EXCEPT
                        !.cursor = IF IsOk(r)
                                   THEN increment_by(stream.cursor,
                                                     r.val.read_bytes)
                                   ELSE stream.cursor]]

\* Fields i.. of the generated try_read_le / try_read_be; acc holds the
\* fields decoded so far.
derive_try_read_from(fields, i, stream, acc, le) ==
    IF stream.cursor = PANIC THEN Panic
    ELSE IF i > Len(fields) THEN Ok(ReadOutput(acc, stream.cursor))
    ELSE LET padded == [stream EXCEPT
                           !.cursor = increment_by(stream.cursor, fields[i].pad)]
         IN  IF padded.cursor = PANIC THEN Panic
             ELSE LET r == read_stream_endian(padded, fields[i].ty, le)
                  IN  IF IsOk(r.res)
                      THEN derive_try_read_from(fields, i + 1, r.stream,
                                                Append(acc, r.res.val), le)
                      ELSE r.res

derive_try_read(fields, bytes, le) ==
    derive_try_read_from(fields, 1, StreamContainer_new(bytes, FALSE), <<>>, le)

(***************************************************************************)
(* macros/tests/endian_read.rs: ListContainer<T>, a count byte followed by *)
(* that many items.  Its value is the sequence of the items.               *)
(***************************************************************************)
ListContainer(item) ==
    [k |-> "list", name |-> "ListContainer", fields |-> <<Field(0, item)>>]

RECURSIVE list_read_items(_, _, _, _, _)

\* The for loop of ListContainer::try_read_le / try_read_be with count
\* items left to read, and the ReadOutput built after it.
list_read_items(item, count, stream, list, le) ==
    IF stream.cursor = PANIC THEN Panic
    ELSE IF count = 0
    THEN (IF UAdd(stream.cursor, 1) = PANIC THEN Panic
          ELSE Ok(ReadOutput(list, UAdd(stream.cursor, 1))))
    ELSE LET r == read_stream_endian(stream, item, le)
         IN  IF IsOk(r.res)
             THEN list_read_items(item, count - 1, r.stream,
                                  Append(list, r.res.val), le)
             ELSE r.res

\* A variant that streams over the whole slice, count byte included.
list_try_read_keeps_count(item, bytes, le) ==
    IF bytes = <<>> THEN Err(InvalidSize(1, 0, 0))
    ELSE list_read_items(item, bytes[1], StreamContainer_new(bytes, FALSE),
                         <<>>, le)

\* ListContainer::try_read_le / try_read_be.
list_try_read(item, bytes, le) ==
    IF bytes = <<>> THEN Err(InvalidSize(1, 0, 0))
    ELSE list_read_items(item, bytes[1],
                         StreamContainer_new(SubSeq(bytes, 2, Len(bytes)),
                                             FALSE),
                         <<>>, le)

try_read(ty, bytes, le) ==
    CASE ty.k = "scalar" -> scalar_try_read(ty.name, bytes, le)
      [] ty.k = "struct" -> derive_try_read(ty.fields, bytes, le)
      [] ty.k = "list" -> list_try_read(ty.fields[1].ty, bytes, le)

(***************************************************************************)
(* mem::size_of::<T>() as used by Reader::get_sized_slice.  For a scalar   *)
(* it is the width.  For a struct it is the size of the in-memory layout,  *)
(* which the default representation leaves to the compiler: the model      *)
(* allows every multiple of the alignment between the packed size and the  *)
(* size of the declaration-order layout.                                   *)
(***************************************************************************)
RECURSIVE mem_align_of(_)
RECURSIVE mem_size_min(_)
RECURSIVE mem_size_decl(_)
RECURSIVE SumMin(_, _)
RECURSIVE MaxAlign(_, _)
RECURSIVE DeclEnd(_, _, _)

Max(a, b) == IF a >= b THEN a ELSE b

RoundUp(n, a) == ((n + a - 1) \div a) * a

MaxAlign(fields, i) ==
    IF i > Len(fields) THEN 1
    ELSE Max(mem_align_of(fields[i].ty), MaxAlign(fields, i + 1))

mem_align_of(ty) ==
    IF ty.k = "struct" THEN MaxAlign(ty.fields, 1) ELSE align_of(ty.name)

SumMin(fields, i) ==
    IF i > Len(fields) THEN 0
    ELSE mem_size_min(fields[i].ty) + SumMin(fields, i + 1)

mem_size_min(ty) ==
    IF ty.k = "struct"
    THEN RoundUp(SumMin(ty.fields, 1), mem_align_of(ty))
    ELSE size_of(ty.name)

DeclEnd(fields, i, at) ==
    IF i > Len(fields) THEN at
    ELSE DeclEnd(fields, i + 1,
                 RoundUp(at, mem_align_of(fields[i].ty))
                 + mem_size_decl(fields[i].ty))

mem_size_decl(ty) ==
    IF ty.k = "struct"
    THEN RoundUp(DeclEnd(ty.fields, 1, 0), mem_align_of(ty))
    ELSE size_of(ty.name)

mem_sizes(ty) ==
    {s \in mem_size_min(ty)..mem_size_decl(ty) : s % mem_align_of(ty) = 0}

(***************************************************************************)
(* reader.rs: the Reader.                                                  *)
(***************************************************************************)
\* Reader::get_slice_of_size, and get_sized_slice with size = size_of::<T>().
get_slice_of_size(data, offset, size) ==
    LET offset_end == UAdd(offset, size)
    IN  IF offset_end = PANIC THEN Panic
        ELSE IF Len(data) < offset_end
        THEN IF USub(Len(data), offset) = PANIC THEN Panic
             ELSE Err(InvalidSizeAvailable(size, USub(Len(data), offset)))
        ELSE IF offset > offset_end THEN Panic
        ELSE Ok(SubSeq(data, offset + 1, offset_end))

\* T::read_le / T::read_be on a slice of size_of::<T>() bytes: the decoded
\* value; there is no error to return, a slice too short for T panics.
decode(ty, bytes, le) ==
    LET r == try_read(ty, bytes, le)
    IN  IF IsOk(r) THEN Ok(r.val.data) ELSE Panic

\* Reader::read_le / read_be for a type whose size_of is size.
Reader_read_endian(data, offset, ty, size, le) ==
    LET bytes == get_slice_of_size(data, offset, size)
    IN  IF IsOk(bytes) THEN decode(ty, bytes.val, le) ELSE bytes

\* safe_transmute::transmute_many_permissive on the slice at address
\* addr: TRUE when the address is aligned for the type.
is_aligned(addr, name) == addr % align_of(name) = 0

\* Reader::get_transmutable and Reader::read.
Reader_read(data, addr, offset, name, host_le) ==
    LET bytes == get_slice_of_size(data, offset, size_of(name))
    IN  IF ~IsOk(bytes) THEN bytes
        ELSE IF ~is_aligned(addr + offset, name)
        THEN Err(InvalidAlignment(size_of(name), Len(bytes.val), offset))
        ELSE Ok(IF host_le THEN from_le_bytes(name, bytes.val)
                ELSE from_be_bytes(name, bytes.val))

(***************************************************************************)
(* The lenient forms: Result::unwrap_or / unwrap_or_default /               *)
(* unwrap_or_else applied to the strict call.  A panic of the strict call  *)
(* is a panic of the lenient one.                                          *)
(***************************************************************************)
unwrap_or(res, default) ==
    IF IsOk(res) THEN Ok(res.val)
    ELSE IF IsErr(res) THEN Ok(default)
    ELSE Panic

RECURSIVE Default(_)

\* Default::default(): zero, false, and field by field for a struct.
Default(ty) ==
    IF ty.k = "struct"
    THEN [i \in 1..Len(ty.fields) |-> Default(ty.fields[i].ty)]
    ELSE [j \in 1..NLimbs(ty.name) |-> 0]

\* Reader::default_read.
Reader_default_read(data, addr, offset, name, host_le) ==
    unwrap_or(Reader_read(data, addr, offset, name, host_le),
              Default(Scalar(name)))

\* Reader::default_read_le / default_read_be.
Reader_default_read_endian(data, offset, ty, size, le) ==
    unwrap_or(Reader_read_endian(data, offset, ty, size, le), Default(ty))

\* Reader::read_byte_vec.
Reader_read_byte_vec(data, offset, size) ==
    get_slice_of_size(data, offset, size)

\* Reader::default_read_byte_vec.
Reader_default_read_byte_vec(data, offset, size) ==
    unwrap_or(Reader_read_byte_vec(data, offset, size), Zeros(size))

\* The strict write a Writer dispatches to: the Vec<u8> impl overrides
\* write_le / write_be and get_sized_mut_slice.
Dispatch_write_bytes(data, vec, offset, bytes) ==
    IF vec THEN Vec_write_bytes(data, offset, bytes)
    ELSE Writer_write_bytes(data, offset, bytes)

Dispatch_write(data, vec, offset, name, v, host_le) ==
    Dispatch_write_bytes(data, vec, offset,
                         transmute_one_to_bytes(name, v, host_le))

Dispatch_write_endian(data, vec, offset, ty, v, le) ==
    IF vec THEN Vec_write_endian(data, offset, ty, v, le)
    ELSE Writer_write_endian(data, offset, ty, v, le)

\* Writer::checked_write_bytes / checked_write / checked_write_le /
\* checked_write_be: the strict write's buffer, and its count or 0.
checked(w) == WriteOutput(unwrap_or(w.res, 0), w.out)

(***************************************************************************)
(* The types and values the calls are made with.                           *)
(***************************************************************************)
ScalarTypes == {Scalar(name) : name \in ScalarNames}

\* macros/tests: struct Test { first: u8, second: u32 }
Test == Struct(<<Field(0, Scalar("u8")), Field(0, Scalar("u32"))>>)

\* macros/tests: struct PaddedTest { pad 1, first: u8, pad 2, second: u32 }
PaddedTest == Struct(<<Field(1, Scalar("u8")), Field(2, Scalar("u32"))>>)

\* macros/tests: struct NestedContainer<PaddedTest> { first: u32, data }
NestedContainer == Struct(<<Field(0, Scalar("u32")), Field(0, PaddedTest)>>)

\* A struct of a bool and a padded signed field.
Flagged == Struct(<<Field(0, Scalar("bool")), Field(1, Scalar("i16"))>>)

\* A struct that ends in a padded zero-size field.
UnitTail == Struct(<<Field(0, Scalar("u8")), Field(1, Unit)>>)

ReadStructTypes == {Test, PaddedTest, NestedContainer, Flagged}

WriteStructTypes == ReadStructTypes \cup {UnitTail}

ScalarValues(name) ==
    CASE name = "bool" -> {<<0>>, <<1>>}
      [] name = "u8" -> {<<1>>, <<170>>}
      [] name = "i8" -> {<<5>>, <<-1>>}
      [] name = "u16" -> {<<4386>>, <<48076>>}
      [] name = "i16" -> {<<4660>>, <<-2>>}
      [] name = "u32" -> {<<13124, 4386>>, <<52445, 43707>>}
      [] name = "i32" -> {<<13124, 4386>>, <<65534, -1>>}
      [] name = "u64" -> {<<30584, 21862, 13124, 4386>>,
                          <<61183, 52445, 43707, 65433>>}
      [] name = "i64" -> {<<30584, 21862, 13124, 4386>>,
                          <<65534, 65535, 65535, -1>>}

RECURSIVE Values(_)
RECURSIVE FieldValues(_, _)

\* The tuples of values of fields i.. of a struct.
FieldValues(fields, i) ==
    IF i > Len(fields) THEN {<<>>}
    ELSE {<<h>> \o t : h \in Values(fields[i].ty),
                       t \in FieldValues(fields, i + 1)}

Values(ty) ==
    CASE ty.k = "scalar" -> ScalarValues(ty.name)
      [] ty.k = "unit" -> {<<>>}
      [] ty.k = "struct" -> FieldValues(ty.fields, 1)

\* Buffers as the tests build them: bytes 1, 2, 3, .. or 0xf1, 0xf2, ..
Ramp(n, first) == [i \in 1..n |-> first + i - 1]

Buffers(maxlen) == {Ramp(n, f) : n \in 0..maxlen, f \in {1, 241}}

(***************************************************************************)
(* Reading through the Reader of a buffer of fixed length.                 *)
(***************************************************************************)
ReaderOffsets == 0..(MaxLen + 1) \cup {USIZE_MAX - 1, USIZE_MAX}

ReaderSizes == 0..(MaxLen + 1) \cup {USIZE_MAX}

Call(op, ty, offset, size, le, res, pre) ==
    [op |-> op, ty |-> ty, val |-> <<>>, offset |-> offset, size |-> size,
     le |-> le, res |-> res, pre |-> pre]

\* A call that takes a value of the type.
ValueCall(op, ty, v, offset, le, res, pre) ==
    [op |-> op, ty |-> ty, val |-> v, offset |-> offset, size |-> 0,
     le |-> le, res |-> res, pre |-> pre]

InitReader ==
    /\ buf \in Buffers(MaxLen)
    /\ growable = FALSE
    /\ base \in {0, 1, 4}
    /\ overflow_checks \in BOOLEAN
    /\ native_le \in BOOLEAN
    /\ cursor = 0
    /\ hist = <<>>

GetSliceOfSize ==
    \E offset \in ReaderOffsets, size \in ReaderSizes :
        /\ hist = <<>>
        /\ hist' = <<Call("get_slice_of_size", Unit, offset, size, TRUE,
                          get_slice_of_size(buf, offset, size), buf)>>
        /\ UNCHANGED <<buf, growable, base, overflow_checks, native_le, cursor>>

GetSizedSlice ==
    \E offset \in ReaderOffsets, ty \in ScalarTypes :
        /\ hist = <<>>
        /\ hist' = <<Call("get_sized_slice", ty, offset, size_of(ty.name), TRUE,
                          get_slice_of_size(buf, offset, size_of(ty.name)),
                          buf)>>
        /\ UNCHANGED <<buf, growable, base, overflow_checks, native_le, cursor>>

ReadEndian ==
    \E offset \in ReaderOffsets, ty \in ScalarTypes \cup ReadStructTypes,
       le \in BOOLEAN :
        \E size \in mem_sizes(ty) :
            /\ hist = <<>>
            /\ hist' = <<Call(IF le THEN "read_le" ELSE "read_be", ty, offset,
                              size, le,
                              Reader_read_endian(buf, offset, ty, size, le),
                              buf)>>
            /\ UNCHANGED <<buf, growable, base, overflow_checks, native_le, cursor>>

ReadTrivial ==
    \E offset \in ReaderOffsets, ty \in ScalarTypes \ {Scalar("bool")} :
        /\ hist = <<>>
        /\ hist' = <<Call("read", ty, offset, size_of(ty.name), native_le,
                          Reader_read(buf, base, offset, ty.name, native_le),
                          buf)>>
        /\ UNCHANGED <<buf, growable, base, overflow_checks, native_le, cursor>>

NextReader == GetSliceOfSize \/ GetSizedSlice \/ ReadEndian \/ ReadTrivial

SpecReader == InitReader /\ [][NextReader]_vars

\* The calls of the history that read a fixed-width scalar, or a slice.
ReadCalls ==
    {i \in 1..Len(hist) :
        /\ hist[i].op \in {"get_slice_of_size", "get_sized_slice", "read_le",
                           "read_be", "read"}
        /\ hist[i].ty.k # "struct"}

\* C1: a read of w bytes at offset o of a buffer of n bytes with o + w > n
\* fails with InvalidSize{wanted_size: w, offset: o, data_len: n}, and the
\* buffer is unchanged.
C1_ShortReadIsInvalidSize ==
    \A i \in ReadCalls :
        hist[i].offset + hist[i].size > Len(hist[i].pre)
        => /\ hist[i].res = Err(InvalidSize(hist[i].size, hist[i].offset,
                                            Len(hist[i].pre)))
           /\ buf = hist[i].pre

\* C2: get_slice_of_size and get_sized_slice return a slice of the size
\* asked for or an InvalidSize error, whatever the offset and the size:
\* they never panic.
C2_SliceGettersNeverPanic ==
    \A i \in 1..Len(hist) :
        hist[i].op \in {"get_slice_of_size", "get_sized_slice"}
        => \/ IsOk(hist[i].res) /\ Len(hist[i].res.val) = hist[i].size
           \/ IsErr(hist[i].res) /\ hist[i].res.err.kind = "InvalidSize"

(***************************************************************************)
(* Rewriting the context of an error: add_error_context applied to every   *)
(* kind of result.                                                         *)
(***************************************************************************)
CtxRange == 0..MaxCtx

CtxResults ==
    {Ok(n) : n \in CtxRange}
    \cup {Err(InvalidSize(w, o, d)) : w \in CtxRange, o \in CtxRange,
                                      d \in CtxRange}
    \cup {Err(InvalidAlignment(w, s, o)) : w \in {4}, s \in {4},
                                           o \in CtxRange}
    \cup {Err(InvalidRead(m)) : m \in {"Custom error!"}}
    \cup {Err(InvalidWrite(m)) : m \in {"Custom error!"}}

InitCtx ==
    /\ buf = <<>>
    /\ growable = FALSE
    /\ base = 0
    /\ overflow_checks \in BOOLEAN
    /\ native_le = TRUE
    /\ cursor = 0
    /\ hist = <<>>

AddErrorContext ==
    \E error \in CtxResults, offset \in CtxRange, data_len \in CtxRange :
        /\ hist = <<>>
        /\ hist' = <<[op |-> "add_error_context", error |-> error,
                      offset |-> offset, data_len |-> data_len,
                      res |-> add_error_context(error, offset, data_len)]>>
        /\ UNCHANGED <<buf, growable, base, overflow_checks, native_le, cursor>>

NextCtx == AddErrorContext

SpecCtx == InitCtx /\ [][NextCtx]_vars

\* C3: add_error_context(result, O, L) turns InvalidSize{w, o, d} into
\* InvalidSize{w, O + o, L} and returns every Ok value and every error of
\* another kind unchanged.
C3_AddErrorContext ==
    \A i \in 1..Len(hist) :
        hist[i].op = "add_error_context"
        => IF IsErr(hist[i].error) /\ hist[i].error.err.kind = "InvalidSize"
           THEN hist[i].res =
                    Err([kind |-> "InvalidSize",
                         wanted_size |-> hist[i].error.err.wanted_size,
                         offset |-> hist[i].offset + hist[i].error.err.offset,
                         data_len |-> hist[i].data_len])
           ELSE hist[i].res = hist[i].error

\* An InvalidSize error whose data length differs from the caller's was
\* rewritten at a nonzero offset.
C3_Witness ==
    \E i \in 1..Len(hist) :
        /\ hist[i].op = "add_error_context"
        /\ IsErr(hist[i].error)
        /\ hist[i].error.err.kind = "InvalidSize"
        /\ hist[i].offset > 0
        /\ hist[i].error.err.offset > 0
        /\ hist[i].error.err.data_len # hist[i].data_len
        /\ IsErr(hist[i].res)

(***************************************************************************)
(* The layout the struct codecs are meant to follow, computed in closed    *)
(* form: the encoded size of a type, and the position of a field.          *)
(***************************************************************************)
RECURSIVE WireSize(_)
RECURSIVE FieldsSize(_, _)
RECURSIVE ExpectedDecode(_, _, _, _)
RECURSIVE ImageByte(_, _, _, _, _, _)
RECURSIVE ImageByteOfFields(_, _, _, _, _, _, _)

\* The sum over the first n fields of pad_before plus the field's size.
FieldsSize(fields, n) ==
    IF n = 0 THEN 0
    ELSE FieldsSize(fields, n - 1) + fields[n].pad + WireSize(fields[n].ty)

WireSize(ty) ==
    CASE ty.k = "scalar" -> size_of(ty.name)
      [] ty.k = "unit" -> 0
      [] ty.k = "custom" -> 0
      [] ty.k = "struct" -> FieldsSize(ty.fields, Len(ty.fields))

\* p_i: what precedes field i, and its own pad_before.
FieldPos(fields, i) == FieldsSize(fields, i - 1) + fields[i].pad

\* The value of type ty that the bytes from position at on stand for.
ExpectedDecode(ty, bytes, at, le) ==
    CASE ty.k = "scalar" ->
            IF ty.name = "bool"
            THEN (IF bytes[at + 1] # 0 THEN <<1>> ELSE <<0>>)
            ELSE IF le
            THEN from_le_bytes(ty.name,
                               SubSeq(bytes, at + 1, at + size_of(ty.name)))
            ELSE from_be_bytes(ty.name,
                               SubSeq(bytes, at + 1, at + size_of(ty.name)))
      [] ty.k = "struct" ->
            [i \in 1..Len(ty.fields) |->
                ExpectedDecode(ty.fields[i].ty, bytes,
                               at + FieldPos(ty.fields, i), le)]

\* The byte at position k (0-based) of a destination that held old there,
\* after v was encoded at position at.
ImageByteOfFields(fields, v, i, at, k, le, old) ==
    IF i > Len(fields) THEN old
    ELSE IF /\ at + FieldPos(fields, i) <= k
            /\ k < at + FieldPos(fields, i) + WireSize(fields[i].ty)
    THEN ImageByte(fields[i].ty, v[i], at + FieldPos(fields, i), k, le, old)
    ELSE ImageByteOfFields(fields, v, i + 1, at, k, le, old)

ImageByte(ty, v, at, k, le, old) ==
    CASE ty.k = "scalar" ->
            IF at <= k /\ k < at + size_of(ty.name)
            THEN scalar_bytes(ty.name, v, le)[k - at + 1]
            ELSE old
      [] ty.k = "unit" -> old
      [] ty.k = "custom" -> old
      [] ty.k = "struct" -> ImageByteOfFields(ty.fields, v, 1, at, k, le, old)

\* The destination old after v was encoded at position at.
Image(ty, v, at, le, old) ==
    [i \in 1..Len(old) |-> ImageByte(ty, v, at, i - 1, le, old[i])]

(***************************************************************************)
(* The codecs applied to a slice: EndianRead::try_read_le / try_read_be,   *)
(* EndianWrite::try_write_le / try_write_be and EndianWrite::get_size.     *)
(***************************************************************************)
\* macros/tests/endian_read.rs: the bytes of padding::should_read_le, and
\* the same bytes with other padding.
PaddedLeBytes == <<0, 170, 0, 0, 238, 221, 204, 187>>

PaddedLeBytesDirty == <<255, 170, 254, 253, 238, 221, 204, 187>>

CodecBuffers == Buffers(MaxDst) \cup {PaddedLeBytes, PaddedLeBytesDirty}

ReadTypes == ScalarTypes \cup ReadStructTypes

WriteTypes == ScalarTypes \cup {Unit} \cup WriteStructTypes

InitCodec ==
    /\ buf \in CodecBuffers
    /\ growable = FALSE
    /\ base = 0
    /\ overflow_checks \in BOOLEAN
    /\ native_le = TRUE
    /\ cursor = 0
    /\ hist = <<>>

TryRead ==
    \E ty \in ReadTypes, le \in BOOLEAN :
        /\ hist = <<>>
        /\ hist' = <<Call(IF le THEN "try_read_le" ELSE "try_read_be", ty, 0,
                          0, le, try_read(ty, buf, le), buf)>>
        /\ UNCHANGED <<buf, growable, base, overflow_checks, native_le, cursor>>

TryWrite ==
    \E ty \in WriteTypes, le \in BOOLEAN :
        \E v \in Values(ty) :
            /\ hist = <<>>
            /\ hist' = <<ValueCall(IF le THEN "try_write_le" ELSE "try_write_be",
                                   ty, v, 0, le, try_write(ty, v, buf, le).res,
                                   buf)>>
            /\ buf' = try_write(ty, v, buf, le).out
            /\ UNCHANGED <<growable, base, overflow_checks, native_le, cursor>>

GetSize ==
    \E ty \in WriteTypes :
        \E v \in Values(ty) :
            /\ hist = <<>>
            /\ hist' = <<ValueCall("get_size", ty, v, 0, TRUE,
                                   Ok(get_size(ty, v)), buf)>>
            /\ UNCHANGED <<buf, growable, base, overflow_checks, native_le, cursor>>

NextCodec == TryRead \/ TryWrite \/ GetSize

SpecCodec == InitCodec /\ [][NextCodec]_vars

IsStructCall(c, ops) == c.op \in ops /\ c.ty.k = "struct"

\* C5: a successful derived try_read_le / try_read_be decodes field i from
\* the position p_i = sum over j < i of (pad_j + size_j) + pad_i, in
\* declaration order, and reports the final cursor position, the sum over
\* all fields of pad plus size, as the bytes consumed; the bytes of the
\* padding do not matter: the bytes of padding::should_read_le decode to
\* {first: 0xaa, second: 0xbbccddee} with 8 bytes consumed whatever the
\* padding holds.
C5_DerivedReadPositions ==
    \A i \in 1..Len(hist) :
        (IsStructCall(hist[i], {"try_read_le", "try_read_be"})
         /\ IsOk(hist[i].res))
        => /\ hist[i].res.val.read_bytes = WireSize(hist[i].ty)
           /\ hist[i].res.val.data =
                  ExpectedDecode(hist[i].ty, hist[i].pre, 0, hist[i].le)
           /\ (/\ hist[i].ty = PaddedTest
               /\ hist[i].le
               /\ hist[i].pre \in {PaddedLeBytes, PaddedLeBytesDirty})
              => hist[i].res = Ok(ReadOutput(<<<<170>>, <<56814, 48076>>>>, 8))

\* A nested struct with padding was decoded.
C5_Witness ==
    \E i \in 1..Len(hist) :
        /\ hist[i].op = "try_read_be"
        /\ hist[i].ty = NestedContainer
        /\ IsOk(hist[i].res)
        /\ hist[i].res.val.read_bytes = 12

\* C6: get_size of a derived struct is the sum over its fields of
\* pad_before plus the field's get_size, through any nesting: PaddedTest
\* reports 8 and NestedContainer<PaddedTest> reports 12.
C6_DerivedGetSize ==
    \A i \in 1..Len(hist) :
        IsStructCall(hist[i], {"get_size"})
        => /\ hist[i].res = Ok(WireSize(hist[i].ty))
           /\ hist[i].ty = PaddedTest => hist[i].res = Ok(8)
           /\ hist[i].ty = NestedContainer => hist[i].res = Ok(12)

\* get_size was taken of a nested struct with padding.
C6_Witness ==
    \E i \in 1..Len(hist) :
        /\ hist[i].op = "get_size"
        /\ hist[i].ty = NestedContainer
        /\ hist[i].res = Ok(12)

\* C7: a successful derived try_write_le / try_write_be writes each field's
\* encoding at its position p_i, returns the final cursor position, which
\* is get_size, and leaves every byte of padding and every byte past the
\* returned count as it was.
C7_DerivedWriteFrame ==
    \A i \in 1..Len(hist) :
        (IsStructCall(hist[i], {"try_write_le", "try_write_be"})
         /\ IsOk(hist[i].res))
        => /\ hist[i].res = Ok(WireSize(hist[i].ty))
           /\ hist[i].res = Ok(get_size(hist[i].ty, hist[i].val))
           /\ buf = Image(hist[i].ty, hist[i].val, 0, hist[i].le, hist[i].pre)

\* A padded struct was written into a longer destination that held
\* nonzero bytes.
C7_Witness ==
    \E i \in 1..Len(hist) :
        /\ hist[i].op = "try_write_le"
        /\ hist[i].ty = PaddedTest
        /\ IsOk(hist[i].res)
        /\ Len(hist[i].pre) > 8
        /\ hist[i].pre[1] # 0
        /\ buf[1] = hist[i].pre[1]
        /\ buf[2] = hist[i].val[1][1]
        /\ buf # hist[i].pre

\* C9: try_write_le / try_write_be of any value into a destination of
\* exactly get_size bytes succeeds and returns get_size, and into a
\* destination one byte shorter it fails with InvalidSize.
C9_SizeTruthfulness ==
    \A i \in 1..Len(hist) :
        hist[i].op \in {"try_write_le", "try_write_be"}
        => /\ Len(hist[i].pre) = WireSize(hist[i].ty)
              => hist[i].res = Ok(WireSize(hist[i].ty))
           /\ (WireSize(hist[i].ty) >= 1
               /\ Len(hist[i].pre) = WireSize(hist[i].ty) - 1)
              => (IsErr(hist[i].res) /\ hist[i].res.err.kind = "InvalidSize")

(***************************************************************************)
(* Writing through the Writer of an array or slice and of a Vec<u8>, and   *)
(* reading the value back through the Reader of the same buffer.           *)
(***************************************************************************)
\* The offsets written at.  A Vec<u8> holds at most isize::MAX bytes, so for
\* a write that the Vec can hold offset + size does not overflow usize.
WriterOffsets == 0..(MaxLen + 1)

ByteStrings == {<<>>, <<7>>, <<170, 187, 204, 221>>}

InitWriter ==
    /\ buf \in Buffers(MaxLen)
    /\ growable \in BOOLEAN
    /\ base = 0
    /\ overflow_checks \in BOOLEAN
    /\ native_le = TRUE
    /\ cursor = 0
    /\ hist = <<>>

\* Writer::write_le / write_be on an array or slice.
WriteEndian ==
    \E offset \in WriterOffsets, ty \in WriteTypes, le \in BOOLEAN :
        \E v \in Values(ty) :
            /\ ~growable
            /\ hist = <<>>
            /\ hist' = <<ValueCall(IF le THEN "write_le" ELSE "write_be", ty, v,
                            offset, le,
                            Writer_write_endian(buf, offset, ty, v, le).res,
                            buf)>>
            /\ buf' = Writer_write_endian(buf, offset, ty, v, le).out
            /\ UNCHANGED <<growable, base, overflow_checks, native_le, cursor>>

\* Writer::write_le / write_be on a Vec<u8>.
VecWriteEndian ==
    \E offset \in WriterOffsets, ty \in WriteTypes, le \in BOOLEAN :
        \E v \in Values(ty) :
            /\ growable
            /\ hist = <<>>
            /\ hist' = <<ValueCall(IF le THEN "write_le" ELSE "write_be", ty, v,
                            offset, le,
                            Vec_write_endian(buf, offset, ty, v, le).res,
                            buf)>>
            /\ buf' = Vec_write_endian(buf, offset, ty, v, le).out
            /\ UNCHANGED <<growable, base, overflow_checks, native_le, cursor>>

\* Writer::write_bytes on an array or slice.
WriteBytes ==
    \E offset \in WriterOffsets, bytes \in ByteStrings :
        /\ ~growable
        /\ hist = <<>>
        /\ hist' = <<ValueCall("write_bytes", Unit, bytes, offset, TRUE,
                        Writer_write_bytes(buf, offset, bytes).res, buf)>>
        /\ buf' = Writer_write_bytes(buf, offset, bytes).out
        /\ UNCHANGED <<growable, base, overflow_checks, native_le, cursor>>

\* Writer::write_bytes on a Vec<u8>.
VecWriteBytes ==
    \E offset \in WriterOffsets, bytes \in ByteStrings :
        /\ growable
        /\ hist = <<>>
        /\ hist' = <<ValueCall("write_bytes", Unit, bytes, offset, TRUE,
                        Vec_write_bytes(buf, offset, bytes).res, buf)>>
        /\ buf' = Vec_write_bytes(buf, offset, bytes).out
        /\ UNCHANGED <<growable, base, overflow_checks, native_le, cursor>>

\* Reader::read_le / read_be of the type just written, at its offset.
ReadBack ==
    \E le \in BOOLEAN :
        /\ Len(hist) = 1
        /\ hist[1].op \in {"write_le", "write_be"}
        /\ hist[1].ty \in ReadTypes
        /\ \E size \in mem_sizes(hist[1].ty) :
              hist' = Append(hist,
                        Call(IF le THEN "read_le" ELSE "read_be", hist[1].ty,
                             hist[1].offset, size, le,
                             Reader_read_endian(buf, hist[1].offset, hist[1].ty,
                                                size, le),
                             buf))
        /\ UNCHANGED <<buf, growable, base, overflow_checks, native_le, cursor>>

NextWriter ==
    WriteEndian \/ VecWriteEndian \/ WriteBytes \/ VecWriteBytes \/ ReadBack

SpecWriter == InitWriter /\ [][NextWriter]_vars

RECURSIVE ShortLeaf(_, _, _)
RECURSIVE ShortLeafOfFields(_, _, _, _)

\* The first scalar field, in declaration order and through nesting, of a
\* value of type ty at position at that does not fit in len bytes, as
\* <<position, width>>; <<>> when all fit.
ShortLeafOfFields(fields, i, at, len) ==
    IF i > Len(fields) THEN <<>>
    ELSE IF ShortLeaf(fields[i].ty, at + FieldPos(fields, i), len) # <<>>
    THEN ShortLeaf(fields[i].ty, at + FieldPos(fields, i), len)
    ELSE ShortLeafOfFields(fields, i + 1, at, len)

ShortLeaf(ty, at, len) ==
    CASE ty.k = "scalar" ->
            IF at + size_of(ty.name) > len THEN <<at, size_of(ty.name)>>
            ELSE <<>>
      [] ty.k = "unit" -> <<>>
      [] ty.k = "struct" -> ShortLeafOfFields(ty.fields, 1, at, len)

\* C4: when a derived struct is read or written with read_le / read_be /
\* write_le / write_be at offset O of a fixed buffer of length L too short
\* for one of its scalar fields, the error is InvalidSize with that field's
\* width, the absolute position at which the field starts, and L.
C4_AbsoluteErrorOffset ==
    \A i \in 1..Len(hist) :
        (/\ ~growable
         /\ IsStructCall(hist[i], {"read_le", "read_be", "write_le", "write_be"})
         /\ ShortLeaf(hist[i].ty, hist[i].offset, Len(hist[i].pre)) # <<>>)
        => hist[i].res =
              Err(InvalidSize(
                    ShortLeaf(hist[i].ty, hist[i].offset, Len(hist[i].pre))[2],
                    ShortLeaf(hist[i].ty, hist[i].offset, Len(hist[i].pre))[1],
                    Len(hist[i].pre)))

\* C8: a value written with write_le (write_be) at an offset and read back
\* with read_le (read_be) at the same offset is the value written.
C8_RoundTrip ==
    (/\ Len(hist) = 2
     /\ hist[1].op \in {"write_le", "write_be"}
     /\ IsOk(hist[1].res)
     /\ hist[2].op \in {"read_le", "read_be"}
     /\ hist[2].le = hist[1].le)
    => hist[2].res = Ok(hist[1].val)

\* The bytes of a write of n bytes at offset o into a Vec of contents old:
\* the written bytes in [o, o + n), the old bytes elsewhere below the old
\* length, zero in what is new.
Grown(old, o, bytes) ==
    [i \in 1..Max(Len(old), o + Len(bytes)) |->
        IF i > o /\ i <= o + Len(bytes) THEN bytes[i - o]
        ELSE IF i <= Len(old) THEN old[i]
        ELSE 0]

\* The bytes a call writes: the byte string, or the scalar's encoding.
WrittenBytes(c) ==
    IF c.op = "write_bytes" THEN c.val
    ELSE scalar_bytes(c.ty.name, c.val, c.le)

\* C10: on a Vec<u8> of length L, write_bytes / write_le / write_be of n
\* bytes at offset o succeeds and returns n; the length becomes
\* max(L, o + n), the bytes [o, o + n) hold the encoding, the bytes that
\* existed elsewhere are unchanged and the new bytes elsewhere are zero;
\* u32 0xaabbccdd written little-endian at offset 2 of an empty Vec gives
\* [0, 0, 0xdd, 0xcc, 0xbb, 0xaa].
C10_VecWriteGrows ==
    (/\ growable
     /\ Len(hist) >= 1
     /\ \/ hist[1].op = "write_bytes"
        \/ hist[1].op \in {"write_le", "write_be"} /\ hist[1].ty.k = "scalar")
    => /\ hist[1].res = Ok(Len(WrittenBytes(hist[1])))
       /\ buf = Grown(hist[1].pre, hist[1].offset, WrittenBytes(hist[1]))
       /\ Len(buf) = Max(Len(hist[1].pre),
                         hist[1].offset + Len(WrittenBytes(hist[1])))
       /\ (/\ hist[1].op = "write_le"
           /\ hist[1].ty = Scalar("u32")
           /\ hist[1].val = <<52445, 43707>>
           /\ hist[1].offset = 2
           /\ hist[1].pre = <<>>)
          => buf = <<0, 0, 221, 204, 187, 170>>

\* A Vec was written past its end, leaving a gap of new bytes.
C10_Witness ==
    /\ growable
    /\ Len(hist) = 1
    /\ hist[1].op = "write_be"
    /\ hist[1].ty = Scalar("u16")
    /\ hist[1].offset > Len(hist[1].pre)
    /\ Len(hist[1].pre) > 0
    /\ IsOk(hist[1].res)
    /\ Len(buf) = hist[1].offset + 2

(***************************************************************************)
(* Writing through the Writer of an array or slice: write_bytes, write,    *)
(* write_le and write_be.                                                  *)
(***************************************************************************)
\* The types with a TriviallyTransmutable impl among the scalars.
TrivialTypes == ScalarTypes \ {Scalar("bool")}

InitFixed ==
    /\ buf \in Buffers(MaxLen)
    /\ growable = FALSE
    /\ base = 0
    /\ overflow_checks \in BOOLEAN
    /\ native_le \in BOOLEAN
    /\ cursor = 0
    /\ hist = <<>>

\* Writer::write on an array or slice.
WriteTrivial ==
    \E offset \in WriterOffsets, ty \in TrivialTypes :
        \E v \in Values(ty) :
            /\ ~growable
            /\ hist = <<>>
            /\ hist' = <<ValueCall("write", ty, v, offset, native_le,
                            Writer_write(buf, offset, ty.name, v, native_le).res,
                            buf)>>
            /\ buf' = Writer_write(buf, offset, ty.name, v, native_le).out
            /\ UNCHANGED <<growable, base, overflow_checks, native_le, cursor>>

NextFixed == WriteBytes \/ WriteTrivial \/ WriteEndian

SpecFixed == InitFixed /\ [][NextFixed]_vars

\* The calls that write a byte string or a fixed-width scalar.
IsFlatWrite(c) ==
    \/ c.op = "write_bytes"
    \/ c.op \in {"write", "write_le", "write_be"} /\ c.ty.k = "scalar"

\* C11: on a buffer of fixed capacity n, write_bytes / write / write_le /
\* write_be of b bytes at offset o with o + len(b) <= n copies them to
\* [o, o + len(b)), returns len(b) and leaves every other byte as it was;
\* with o + len(b) > n it returns InvalidSize{len(b), o, n} and leaves the
\* buffer as it was.
C11_FixedWrite ==
    \A i \in 1..Len(hist) :
        (~growable /\ IsFlatWrite(hist[i]))
        => IF hist[i].offset + Len(WrittenBytes(hist[i])) <= Len(hist[i].pre)
           THEN /\ hist[i].res = Ok(Len(WrittenBytes(hist[i])))
                /\ Len(buf) = Len(hist[i].pre)
                /\ \A k \in 1..Len(buf) :
                      buf[k] = IF /\ k > hist[i].offset
                                  /\ k <= hist[i].offset
                                          + Len(WrittenBytes(hist[i]))
                               THEN WrittenBytes(hist[i])[k - hist[i].offset]
                               ELSE hist[i].pre[k]
           ELSE /\ hist[i].res = Err(InvalidSize(Len(WrittenBytes(hist[i])),
                                                 hist[i].offset,
                                                 Len(hist[i].pre)))
                /\ buf = hist[i].pre

\* A trivial write that overlaps the end of the buffer was refused.
C11_Witness ==
    /\ Len(hist) = 1
    /\ hist[1].op = "write"
    /\ hist[1].ty = Scalar("u16")
    /\ Len(hist[1].pre) = MaxLen
    /\ hist[1].offset = MaxLen - 1
    /\ hist[1].res = Err(InvalidSize(2, MaxLen - 1, MaxLen))
    /\ buf = hist[1].pre

(***************************************************************************)
(* Writing values whose encoder can fail into a Vec<u8>.                   *)
(***************************************************************************)
CustomErrorTest == Custom("CustomErrorTest")

OffsetErrorTest == Custom("OffsetErrorTest")

CustomTypes == {CustomErrorTest, OffsetErrorTest}

\* The tuple field of the test types, which the encoders ignore.
CustomValues == {<<0>>}

InitGrow ==
    /\ buf \in Buffers(MaxLen)
    /\ growable = TRUE
    /\ base = 0
    /\ overflow_checks \in BOOLEAN
    /\ native_le = TRUE
    /\ cursor = 0
    /\ hist = <<>>

\* Writer::write_le of a Vec<u8> with a value of a hand-written encoder.
VecWriteCustom ==
    \E offset \in WriterOffsets, ty \in CustomTypes, v \in CustomValues :
        /\ growable
        /\ hist = <<>>
        /\ hist' = <<ValueCall("write_le", ty, v, offset, TRUE,
                        Vec_write_endian(buf, offset, ty, v, TRUE).res, buf)>>
        /\ buf' = Vec_write_endian(buf, offset, ty, v, TRUE).out
        /\ UNCHANGED <<growable, base, overflow_checks, native_le, cursor>>

NextGrow == VecWriteEndian \/ VecWriteCustom

SpecGrow == InitGrow /\ [][NextGrow]_vars

\* The size a type declares: the encoded size, 0 for the failing encoders.
DeclaredSize(ty) == IF ty.k = "custom" THEN 0 ELSE WireSize(ty)

\* C12: write_le / write_be of v at offset o of a Vec<u8> of length L
\* leaves the length at max(L, o + get_size(v)), the new bytes zero where
\* nothing was written; if the encoder fails its error is returned, the Vec
\* keeps the grown length, and an InvalidSize error reports the grown
\* length as data_len.  An empty Vec written at offset 2 with
\* OffsetErrorTest ends as [0, 0] with InvalidSize{8, 3, 2}.
C12_VecGrowsBeforeEncoding ==
    \A i \in 1..Len(hist) :
        (growable /\ hist[i].op \in {"write_le", "write_be"})
        => /\ Len(buf) = Max(Len(hist[i].pre),
                             hist[i].offset + DeclaredSize(hist[i].ty))
           /\ \A k \in 1..Len(buf) :
                 (k <= hist[i].offset \/ IsErr(hist[i].res))
                 => buf[k] = IF k <= Len(hist[i].pre) THEN hist[i].pre[k] ELSE 0
           /\ hist[i].ty.k # "custom" => hist[i].res = Ok(WireSize(hist[i].ty))
           /\ hist[i].ty = CustomErrorTest
              => hist[i].res = Err(InvalidRead("Custom error!"))
           /\ hist[i].ty = OffsetErrorTest
              => hist[i].res = Err(InvalidSize(8, hist[i].offset + 1, Len(buf)))
           /\ (/\ hist[i].ty = OffsetErrorTest
               /\ hist[i].pre = <<>>
               /\ hist[i].offset = 2)
              => /\ buf = <<0, 0>>
                 /\ hist[i].res = Err(InvalidSize(8, 3, 2))

\* A failing encoder was called past the end of a Vec that was not empty.
C12_Witness ==
    /\ Len(hist) = 1
    /\ growable
    /\ hist[1].ty = OffsetErrorTest
    /\ Len(hist[1].pre) > 0
    /\ hist[1].offset > Len(hist[1].pre)
    /\ IsErr(hist[1].res)
    /\ hist[1].res.err.data_len = hist[1].offset
    /\ Len(buf) = hist[1].offset

(***************************************************************************)
(* The lenient reads and writes, each next to the strict call it wraps.    *)
(***************************************************************************)
LenientOffsets == {0, 2, MaxLen - 1, MaxLen + 1}

LenientSizes == {0, 1, 4}

\* A lenient call with the outcome of the strict call on the same input:
\* strict is its result, strict_out the buffer it leaves.
LenientCall(op, ty, v, offset, size, le, res, pre, strict, strict_out) ==
    [op |-> op, ty |-> ty, val |-> v, offset |-> offset, size |-> size,
     le |-> le, res |-> res, pre |-> pre, strict |-> strict,
     strict_out |-> strict_out]

InitLenient ==
    /\ buf \in Buffers(MaxLen)
    /\ growable \in BOOLEAN
    /\ base \in {0, 1}
    /\ overflow_checks \in BOOLEAN
    /\ native_le = TRUE
    /\ cursor = 0
    /\ hist = <<>>

DefaultRead ==
    \E offset \in LenientOffsets, ty \in TrivialTypes :
        /\ ~growable
        /\ hist = <<>>
        /\ hist' = <<LenientCall("default_read", ty, <<>>, offset,
                        size_of(ty.name), native_le,
                        Reader_default_read(buf, base, offset, ty.name,
                                            native_le),
                        buf,
                        Reader_read(buf, base, offset, ty.name, native_le),
                        buf)>>
        /\ UNCHANGED <<buf, growable, base, overflow_checks, native_le, cursor>>

DefaultReadEndian ==
    \E offset \in LenientOffsets, ty \in ReadTypes, le \in BOOLEAN :
        \E size \in mem_sizes(ty) :
            /\ ~growable
            /\ hist = <<>>
            /\ hist' = <<LenientCall(
                            IF le THEN "default_read_le" ELSE "default_read_be",
                            ty, <<>>, offset, size, le,
                            Reader_default_read_endian(buf, offset, ty, size, le),
                            buf,
                            Reader_read_endian(buf, offset, ty, size, le),
                            buf)>>
            /\ UNCHANGED <<buf, growable, base, overflow_checks, native_le, cursor>>

DefaultReadByteVec ==
    \E offset \in LenientOffsets, size \in LenientSizes :
        /\ ~growable
        /\ hist = <<>>
        /\ hist' = <<LenientCall("default_read_byte_vec", Unit, <<>>, offset,
                        size, TRUE,
                        Reader_default_read_byte_vec(buf, offset, size),
                        buf,
                        Reader_read_byte_vec(buf, offset, size),
                        buf)>>
        /\ UNCHANGED <<buf, growable, base, overflow_checks, native_le, cursor>>

CheckedWriteBytes ==
    /\ hist = <<>>
    /\ \E offset \in LenientOffsets, bytes \in ByteStrings :
        /\ hist' = <<LenientCall("checked_write_bytes", Unit, bytes, offset,
                        Len(bytes), TRUE,
                        checked(Dispatch_write_bytes(buf, growable, offset,
                                                     bytes)).res,
                        buf,
                        Dispatch_write_bytes(buf, growable, offset, bytes).res,
                        Dispatch_write_bytes(buf, growable, offset, bytes).out)>>
        /\ buf' = checked(Dispatch_write_bytes(buf, growable, offset, bytes)).out
        /\ UNCHANGED <<growable, base, overflow_checks, native_le, cursor>>

CheckedWrite ==
    /\ hist = <<>>
    /\ \E offset \in LenientOffsets, ty \in TrivialTypes :
        \E v \in Values(ty) :
            /\ hist' = <<LenientCall("checked_write", ty, v, offset,
                            size_of(ty.name), native_le,
                            checked(Dispatch_write(buf, growable, offset,
                                                   ty.name, v, native_le)).res,
                            buf,
                            Dispatch_write(buf, growable, offset, ty.name, v,
                                           native_le).res,
                            Dispatch_write(buf, growable, offset, ty.name, v,
                                           native_le).out)>>
            /\ buf' = checked(Dispatch_write(buf, growable, offset, ty.name, v,
                                             native_le)).out
            /\ UNCHANGED <<growable, base, overflow_checks, native_le, cursor>>

CheckedWriteEndian ==
    /\ hist = <<>>
    /\ \E offset \in LenientOffsets, ty \in WriteTypes \cup CustomTypes :
        \E v \in (IF ty.k = "custom" THEN CustomValues ELSE Values(ty)),
           le \in (IF ty.k = "custom" THEN {TRUE} ELSE BOOLEAN) :
            /\ hist' = <<LenientCall(
                            IF le THEN "checked_write_le" ELSE "checked_write_be",
                            ty, v, offset, 0, le,
                            checked(Dispatch_write_endian(buf, growable, offset,
                                                          ty, v, le)).res,
                            buf,
                            Dispatch_write_endian(buf, growable, offset, ty, v,
                                                  le).res,
                            Dispatch_write_endian(buf, growable, offset, ty, v,
                                                  le).out)>>
            /\ buf' = checked(Dispatch_write_endian(buf, growable, offset, ty, v,
                                                    le)).out
            /\ UNCHANGED <<growable, base, overflow_checks, native_le, cursor>>

NextLenient ==
    \/ DefaultRead
    \/ DefaultReadEndian
    \/ DefaultReadByteVec
    \/ CheckedWriteBytes
    \/ CheckedWrite
    \/ CheckedWriteEndian

SpecLenient == InitLenient /\ [][NextLenient]_vars

LenientReads ==
    {"default_read", "default_read_le", "default_read_be",
     "default_read_byte_vec"}

LenientWrites ==
    {"checked_write_bytes", "checked_write", "checked_write_le",
     "checked_write_be"}

\* What a lenient call returns when the strict call fails.
FallbackOf(c) ==
    IF c.op \in LenientWrites THEN 0
    ELSE IF c.op = "default_read_byte_vec" THEN [k \in 1..c.size |-> 0]
    ELSE [j \in 1..Len(Default(c.ty)) |-> Default(c.ty)[j]]

\* C13: a lenient read returns the strict read's value when it succeeds and
\* the default when it fails; a lenient write returns n and leaves the
\* strict write's buffer when the strict write returns Ok(n), and returns 0
\* when it returns an error; a lenient call never returns or raises an
\* error.
C13_LenientAgreesWithStrict ==
    \A i \in 1..Len(hist) :
        hist[i].op \in LenientReads \cup LenientWrites
        => /\ IsOk(hist[i].res)
           /\ IsOk(hist[i].strict)
              => /\ hist[i].res = Ok(hist[i].strict.val)
                 /\ buf = hist[i].strict_out
           /\ ~IsOk(hist[i].strict) => hist[i].res = Ok(FallbackOf(hist[i]))
           /\ hist[i].op \in LenientReads => buf = hist[i].pre

(***************************************************************************)
(* stream/cursor.rs and stream/reader.rs: the strict reads of a stream,    *)
(* a buffer of fixed length with a cursor.                                 *)
(***************************************************************************)
\* Cursor::swap_incremented_index: the index a call works at, and the
\* index it leaves (PANIC when the addition panics).
swap_incremented_index(index, size) ==
    [index |-> index, next |-> increment_by(index, size)]

\* StreamReader::read_stream.
StreamReader_read_stream(stream, addr, name, host_le) ==
    LET s == swap_incremented_index(stream.cursor, size_of(name))
    IN  IF s.next = PANIC THEN [res |-> Panic, stream |-> stream]
        ELSE [res |-> Reader_read(stream.raw, addr, s.index, name, host_le),
              stream |-> [stream EXCEPT !.cursor = s.next]]

\* StreamReader::read_byte_stream.
StreamReader_read_byte_stream(stream, size) ==
    LET s == swap_incremented_index(stream.cursor, size)
    IN  IF s.next = PANIC THEN [res |-> Panic, stream |-> stream]
        ELSE [res |-> Reader_read_byte_vec(stream.raw, s.index, size),
              stream |-> [stream EXCEPT !.cursor = s.next]]

\* The stream the variables describe.
Stream == [raw |-> buf, cursor |-> cursor, vec |-> growable]

\* A stream call: offset is the cursor it found, next the cursor it left.
StreamCall(op, ty, v, size, le, res, pre, next) ==
    [op |-> op, ty |-> ty, val |-> v, offset |-> cursor, size |-> size,
     le |-> le, res |-> res, pre |-> pre, next |-> next]

MaxCalls == 2

StreamSizes == {0, 1, 3}

InitStreamRead ==
    /\ buf \in Buffers(MaxLen)
    /\ growable = FALSE
    /\ base \in {0, 1}
    /\ overflow_checks \in BOOLEAN
    /\ native_le = TRUE
    /\ cursor = 0
    /\ hist = <<>>

ReadStream ==
    \E ty \in TrivialTypes :
        LET r == StreamReader_read_stream(Stream, base, ty.name, native_le)
        IN  /\ Len(hist) < MaxCalls
            /\ cursor # PANIC
            /\ hist' = Append(hist,
                   StreamCall("read_stream", ty, <<>>, size_of(ty.name),
                              native_le, r.res, buf, r.stream.cursor))
            /\ cursor' = r.stream.cursor
            /\ UNCHANGED <<buf, growable, base, overflow_checks, native_le>>

ReadStreamEndian ==
    \E ty \in ReadTypes, le \in BOOLEAN :
        LET r == read_stream_endian(Stream, ty, le)
        IN  /\ Len(hist) < MaxCalls
            /\ cursor # PANIC
            /\ hist' = Append(hist,
                   StreamCall(IF le THEN "read_stream_le" ELSE "read_stream_be",
                              ty, <<>>, 0, le, r.res, buf, r.stream.cursor))
            /\ cursor' = r.stream.cursor
            /\ UNCHANGED <<buf, growable, base, overflow_checks, native_le>>

ReadByteStream ==
    \E size \in StreamSizes :
        LET r == StreamReader_read_byte_stream(Stream, size)
        IN  /\ Len(hist) < MaxCalls
            /\ cursor # PANIC
            /\ hist' = Append(hist,
                   StreamCall("read_byte_stream", Unit, <<>>, size, TRUE,
                              r.res, buf, r.stream.cursor))
            /\ cursor' = r.stream.cursor
            /\ UNCHANGED <<buf, growable, base, overflow_checks, native_le>>

NextStreamRead == ReadStream \/ ReadStreamEndian \/ ReadByteStream

SpecStreamRead == InitStreamRead /\ [][NextStreamRead]_vars

StreamReads ==
    {"read_stream", "read_stream_le", "read_stream_be", "read_byte_stream"}

\* The bytes a successful stream read consumed.
Consumed(c) ==
    IF c.op \in {"read_stream", "read_byte_stream"} THEN c.size
    ELSE WireSize(c.ty)

\* The value the bytes at the cursor stand for.
DecodedAtCursor(c) ==
    IF c.op = "read_byte_stream"
    THEN SubSeq(c.pre, c.offset + 1, c.offset + c.size)
    ELSE ExpectedDecode(c.ty, c.pre, c.offset, c.le)

\* C14: a successful strict stream read returns the value decoded at the
\* cursor c and leaves the cursor at c plus the bytes consumed, so the next
\* read starts where this one ended; a read that returns an error leaves
\* the cursor at c.
C14_StreamReadCursor ==
    \A i \in 1..Len(hist) :
        hist[i].op \in StreamReads
        => /\ IsOk(hist[i].res)
              => /\ hist[i].res.val = DecodedAtCursor(hist[i])
                 /\ hist[i].next = hist[i].offset + Consumed(hist[i])
           /\ IsErr(hist[i].res) => hist[i].next = hist[i].offset
           /\ i > 1 => hist[i].offset = hist[i - 1].next

(***************************************************************************)
(* stream/writer.rs: the strict writes of a stream over a buffer of fixed  *)
(* length or over a Vec<u8>.                                               *)
(***************************************************************************)
\* StreamWriter::write_stream.
StreamWriter_write_stream(stream, name, v, host_le) ==
    LET s == swap_incremented_index(stream.cursor, size_of(name))
        w == Dispatch_write(stream.raw, stream.vec, s.index, name, v, host_le)
    IN  IF s.next = PANIC THEN [res |-> Panic, stream |-> stream]
        ELSE [res |-> w.res,
              stream |-> [stream EXCEPT !.raw = w.out, !.cursor = s.next]]

\* StreamWriter::write_stream_bytes.
StreamWriter_write_stream_bytes(stream, bytes) ==
    LET s == swap_incremented_index(stream.cursor, Len(bytes))
        w == Dispatch_write_bytes(stream.raw, stream.vec, s.index, bytes)
    IN  IF s.next = PANIC THEN [res |-> Panic, stream |-> stream]
        ELSE [res |-> w.res,
              stream |-> [stream EXCEPT !.raw = w.out, !.cursor = s.next]]

\* StreamWriter::write_stream_le / write_stream_be.
StreamWriter_write_stream_endian(stream, ty, v, le) ==
    LET w == Dispatch_write_endian(stream.raw, stream.vec, stream.cursor,
                                   ty, v, le)
    IN  [res |-> w.res,
         stream |-> [stream EXCEPT
                        !.raw = w.out,
                        !.cursor = IF IsOk(w.res)
                                   THEN increment_by(stream.cursor, w.res.val)
                                   ELSE stream.cursor]]

RECURSIVE write_array_stream_from(_, _, _, _, _, _, _)

\* The loop of write_array_stream_le / write_array_stream_be from element
\* i on; index is the cursor the call found and write_size the sum so far.
\* The little-endian loop adds the count the write returned, the
\* big-endian loop the element's get_size.
write_array_stream_from(stream, ty, vs, i, index, write_size, le) ==
    IF stream.cursor = PANIC \/ write_size = PANIC
    THEN [res |-> Panic, stream |-> stream]
    ELSE IF i > Len(vs) THEN [res |-> Ok(write_size), stream |-> stream]
    ELSE IF UAdd(index, write_size) = PANIC
    THEN [res |-> Panic, stream |-> stream]
    ELSE LET w == Dispatch_write_endian(stream.raw, stream.vec,
                                        UAdd(index, write_size), ty, vs[i], le)
             n == IF le THEN w.res.val ELSE get_size(ty, vs[i])
         IN  IF IsOk(w.res)
             THEN write_array_stream_from(
                      [stream EXCEPT !.raw = w.out,
                                     !.cursor = increment_by(stream.cursor, n)],
                      ty, vs, i + 1, index, UAdd(write_size, n), le)
             ELSE [res |-> w.res, stream |-> [stream EXCEPT !.raw = w.out]]

\* StreamWriter::write_array_stream_le / write_array_stream_be.
StreamWriter_write_array_stream(stream, ty, vs, le) ==
    write_array_stream_from(stream, ty, vs, 1, stream.cursor, 0, le)

MaxArray == 3

\* The element types of the arrays, and the arrays of up to MaxArray
\* elements.
ArrayTypes == {Scalar("u8"), Scalar("u16"), Scalar("u32")}

\* The values the elements take: those of the scalar, two of a struct,
\* the one of a failing encoder.
ElementValues(ty) ==
    CASE ty.k = "scalar" -> Values(ty)
      [] ty.k = "custom" -> CustomValues
      [] ty.k = "struct" ->
            {[i \in 1..Len(ty.fields) |->
                CHOOSE v \in Values(ty.fields[i].ty) :
                    \A w \in Values(ty.fields[i].ty) :
                        (v = w) \/ ((v[1] < w[1]) = low)]
             : low \in BOOLEAN}

Arrays(ty) == UNION {[1..n -> ElementValues(ty)] : n \in 0..MaxArray}

InitStreamWrite ==
    /\ buf \in Buffers(MaxLen)
    /\ growable \in BOOLEAN
    /\ base = 0
    /\ overflow_checks \in BOOLEAN
    /\ native_le = TRUE
    /\ cursor = 0
    /\ hist = <<>>

\* Cursor::set_index on a fresh stream.
SetIndex ==
    \E index \in 1..(MaxLen + 1) :
        /\ hist = <<>>
        /\ cursor = 0
        /\ cursor' = index
        /\ UNCHANGED <<buf, growable, base, overflow_checks, native_le, hist>>

WriteStream ==
    \E ty \in TrivialTypes :
        \E v \in Values(ty) :
            LET w == StreamWriter_write_stream(Stream, ty.name, v, native_le)
            IN  /\ hist = <<>>
                /\ hist' = <<StreamCall("write_stream", ty, v, size_of(ty.name),
                                        native_le, w.res, buf, w.stream.cursor)>>
                /\ buf' = w.stream.raw
                /\ cursor' = w.stream.cursor
                /\ UNCHANGED <<growable, base, overflow_checks, native_le>>

WriteStreamBytes ==
    \E bytes \in ByteStrings :
        LET w == StreamWriter_write_stream_bytes(Stream, bytes)
        IN  /\ hist = <<>>
            /\ hist' = <<StreamCall("write_stream_bytes", Unit, bytes,
                                    Len(bytes), TRUE, w.res, buf,
                                    w.stream.cursor)>>
            /\ buf' = w.stream.raw
            /\ cursor' = w.stream.cursor
            /\ UNCHANGED <<growable, base, overflow_checks, native_le>>

WriteStreamEndian ==
    \E ty \in WriteTypes, le \in BOOLEAN :
        \E v \in Values(ty) :
            LET w == StreamWriter_write_stream_endian(Stream, ty, v, le)
            IN  /\ hist = <<>>
                /\ hist' = <<StreamCall(
                                IF le THEN "write_stream_le"
                                ELSE "write_stream_be",
                                ty, v, 0, le, w.res, buf, w.stream.cursor)>>
                /\ buf' = w.stream.raw
                /\ cursor' = w.stream.cursor
                /\ UNCHANGED <<growable, base, overflow_checks, native_le>>

WriteArrayStream ==
    \E ty \in ArrayTypes, le \in BOOLEAN :
        \E vs \in Arrays(ty) :
            LET w == StreamWriter_write_array_stream(Stream, ty, vs, le)
            IN  /\ hist = <<>>
                /\ hist' = <<StreamCall(
                                IF le THEN "write_array_stream_le"
                                ELSE "write_array_stream_be",
                                ty, vs, 0, le, w.res, buf, w.stream.cursor)>>
                /\ buf' = w.stream.raw
                /\ cursor' = w.stream.cursor
                /\ UNCHANGED <<growable, base, overflow_checks, native_le>>

NextStreamWrite ==
    \/ SetIndex
    \/ WriteStream
    \/ WriteStreamBytes
    \/ WriteStreamEndian
    \/ WriteArrayStream

SpecStreamWrite == InitStreamWrite /\ [][NextStreamWrite]_vars

StreamWrites ==
    {"write_stream", "write_stream_le", "write_stream_be",
     "write_stream_bytes", "write_array_stream_le", "write_array_stream_be"}

StreamArrayWrites == {"write_array_stream_le", "write_array_stream_be"}

RECURSIVE ArrayImage(_, _, _, _, _, _)

\* The destination old after elements i.. of vs were encoded one after
\* the other from position at on.
ArrayImage(ty, vs, i, at, le, old) ==
    IF i > Len(vs) THEN old
    ELSE ArrayImage(ty, vs, i + 1, at + WireSize(ty), le,
                    Image(ty, vs[i], at, le, old))

\* The bytes a successful stream write produces.
Produced(c) ==
    IF c.op \in {"write_stream", "write_stream_bytes"} THEN c.size
    ELSE IF c.op \in StreamArrayWrites THEN Len(c.val) * WireSize(c.ty)
    ELSE WireSize(c.ty)

\* The buffer a successful stream write leaves: grown with zeros to hold
\* the bytes produced if it is a Vec<u8> (an array of no element makes no
\* write and grows nothing), and holding the encoding at the cursor.
StreamImage(c, vec) ==
    LET old == IF vec /\ ~(c.op \in StreamArrayWrites /\ Len(c.val) = 0)
               THEN resize_if_longer(c.pre, c.offset + Produced(c))
               ELSE c.pre
    IN  IF c.op = "write_stream_bytes" THEN Grown(old, c.offset, c.val)
        ELSE IF c.op \in StreamArrayWrites
        THEN ArrayImage(c.ty, c.val, 1, c.offset, c.le, old)
        ELSE Image(c.ty, c.val, c.offset, c.le, old)

RECURSIVE FirstLeafEnd(_)
RECURSIVE FirstLeafEndOfFields(_, _)

\* Where the first byte-holding scalar of an encoding ends, from the
\* start of the encoding; 0 when the encoding holds no byte.
FirstLeafEndOfFields(fields, i) ==
    IF i > Len(fields) THEN 0
    ELSE IF WireSize(fields[i].ty) > 0
    THEN FieldPos(fields, i) + FirstLeafEnd(fields[i].ty)
    ELSE FirstLeafEndOfFields(fields, i + 1)

FirstLeafEnd(ty) ==
    CASE ty.k = "scalar" -> size_of(ty.name)
      [] ty.k = "unit" -> 0
      [] ty.k = "struct" -> FirstLeafEndOfFields(ty.fields, 1)

\* A failed stream write wrote no byte: the byte string or trivial value
\* did not fit, or the first scalar of the encoding did not.
NoByteWritten(c) ==
    \/ c.op \in {"write_stream", "write_stream_bytes"}
    \/ c.offset + FirstLeafEnd(c.ty) > Len(c.pre)

\* C15: a successful strict stream write at cursor c puts the encoding at
\* c, returns the number n of bytes written and leaves the cursor at c + n;
\* a write that fails without having written any byte leaves the cursor
\* at c.
C15_StreamWriteCursor ==
    \A i \in 1..Len(hist) :
        hist[i].op \in StreamWrites
        => /\ IsOk(hist[i].res)
              => /\ buf = StreamImage(hist[i], growable)
                 /\ hist[i].res.val = Produced(hist[i])
                 /\ hist[i].next = hist[i].offset + hist[i].res.val
           /\ (IsErr(hist[i].res) /\ NoByteWritten(hist[i]))
              => /\ buf = hist[i].pre
                 /\ hist[i].next = hist[i].offset

(***************************************************************************)
(* Decoding count-prefixed lists, bare and as a field of a derived struct. *)
(***************************************************************************)
MaxCount == 2
MaxTrail == 2

ListOfU32 == ListContainer(Scalar("u32"))

\* macros/tests: struct TestContainer { test: Test, list: ListContainer<u32> }
TestContainer == Struct(<<Field(0, Test), Field(0, ListOfU32)>>)

\* A derived struct with a field after the list.
ListThenByte == Struct(<<Field(0, ListOfU32), Field(0, Scalar("u8"))>>)

ListTypes == {ListOfU32, TestContainer, ListThenByte}

\* macros/tests/endian_read.rs: the bytes of should_read_dynamic_size_le.
DynamicSizeBytes == <<2, 17, 34, 51, 68, 170, 187, 204, 221>>

\* A count byte and what follows it, whole, cut short or with bytes to
\* spare, bare or after the five bytes of a Test.
ListBuffers ==
    {DynamicSizeBytes}
    \cup {prefix \o <<c>> \o Ramp(n, f) :
            prefix \in {<<>>, Ramp(5, 0)},
            c \in 0..MaxCount,
            n \in 0..(4 * MaxCount + MaxTrail),
            f \in {17, 241}}

InitList ==
    /\ buf \in ListBuffers
    /\ growable = FALSE
    /\ base = 0
    /\ overflow_checks \in BOOLEAN
    /\ native_le = TRUE
    /\ cursor = 0
    /\ hist = <<>>

ListTryRead ==
    \E ty \in ListTypes, le \in BOOLEAN :
        /\ hist = <<>>
        /\ hist' = <<Call("try_read", ty, 0, 0, le, try_read(ty, buf, le), buf)>>
        /\ UNCHANGED <<buf, growable, base, overflow_checks, native_le, cursor>>

ListReadWithOutput ==
    \E ty \in ListTypes, le \in BOOLEAN, offset \in {0, 5} :
        /\ hist = <<>>
        /\ hist' = <<Call("read_with_output", ty, offset, 0, le,
                          read_with_output(buf, offset, ty, le), buf)>>
        /\ UNCHANGED <<buf, growable, base, overflow_checks, native_le, cursor>>

NextList == ListTryRead \/ ListReadWithOutput

SpecList == InitList /\ [][NextList]_vars

\* Where the list of a value of the type starts, from the start of the
\* value.
ListStart(ty) == IF ty = TestContainer THEN WireSize(Test) ELSE 0

\* The count byte of the list at position at, and the end of its items.
CountAt(bytes, at) == bytes[at + 1]

ListEnd(bytes, at) == at + 1 + 4 * CountAt(bytes, at)

\* Item i (from 0) of the list at position at: bytes [1 + 4i, 1 + 4i + 4)
\* after at, in the chosen order.
ItemAt(bytes, at, i, le) ==
    LET four == SubSeq(bytes, at + 1 + 4 * i + 1, at + 1 + 4 * i + 4)
    IN  IF le THEN from_le_bytes("u32", four) ELSE from_be_bytes("u32", four)

ItemsAt(bytes, at, le) ==
    [i \in 1..CountAt(bytes, at) |-> ItemAt(bytes, at, i - 1, le)]

\* What decoding a value of the type at position at must give, and the
\* bytes it needs there.
ListNeeds(ty, bytes, at) ==
    IF Len(bytes) < at + ListStart(ty) + 1 THEN Len(bytes) + 1
    ELSE ListEnd(bytes, at + ListStart(ty))
         + (IF ty = ListThenByte THEN 1 ELSE 0)

ListExpected(ty, bytes, at, le) ==
    LET l == at + ListStart(ty)
    IN  CASE ty = ListOfU32 ->
                ReadOutput(ItemsAt(bytes, l, le), ListEnd(bytes, l) - at)
          [] ty = TestContainer ->
                ReadOutput(<<ExpectedDecode(Test, bytes, at, le),
                             ItemsAt(bytes, l, le)>>,
                           ListEnd(bytes, l) - at)
          [] ty = ListThenByte ->
                ReadOutput(<<ItemsAt(bytes, l, le),
                             <<bytes[ListEnd(bytes, l) + 1]>>>>,
                           ListEnd(bytes, l) + 1 - at)

IntegerTypes == ScalarTypes \ {Scalar("bool")}

\* Byte i (0 = least significant) of the two's complement pattern of v.
ValueByte(name, v, i) ==
    IF size_of(name) = 1 THEN (v[1] + 256) % 256
    ELSE (((v[(i \div 2) + 1] + 65536) % 65536)
          \div (IF i % 2 = 0 THEN 1 ELSE 256)) % 256

\* The destination index of byte i of an n-byte value.
WireIndex(n, i, le) == IF le THEN i ELSE n - 1 - i

\* v is a value of the type: limbs in range, the top one signed for a
\* signed type.
IsValueOf(name, v) ==
    /\ Len(v) = NLimbs(name)
    /\ \A j \in 1..Len(v) :
        IF IsSigned(name) /\ j = Len(v)
        THEN /\ v[j] >= 0 - 2 ^ (LimbBits(name) - 1)
             /\ v[j] < 2 ^ (LimbBits(name) - 1)
        ELSE v[j] >= 0 /\ v[j] < 2 ^ LimbBits(name)

CodecWrites == {"try_write_le", "try_write_be"}

CodecReads == {"try_read_le", "try_read_be"}

\* C17: for an integer type of n bytes try_write_le stores byte i of the
\* value (0 = least significant, two's complement) at index i and
\* try_write_be at index n - 1 - i, and try_read_le / try_read_be are the
\* inverse maps; bool is written as 1 for true and 0 for false in both
\* orders and reads as true exactly when the byte is not zero.
C17_WireEncoding ==
    \A k \in 1..Len(hist) :
        LET c == hist[k]
            n == size_of(c.ty.name)
        IN  (c.ty.k = "scalar" /\ n <= Len(c.pre))
            => /\ (c.op \in CodecWrites /\ c.ty \in IntegerTypes)
                  => /\ c.res = Ok(n)
                     /\ Len(buf) = Len(c.pre)
                     /\ \A i \in 0..(n - 1) :
                            buf[WireIndex(n, i, c.le) + 1]
                                = ValueByte(c.ty.name, c.val, i)
                     /\ \A j \in (n + 1)..Len(buf) : buf[j] = c.pre[j]
               /\ (c.op \in CodecReads /\ c.ty \in IntegerTypes)
                  => /\ IsOk(c.res)
                     /\ c.res.val.read_bytes = n
                     /\ IsValueOf(c.ty.name, c.res.val.data)
                     /\ \A i \in 0..(n - 1) :
                            ValueByte(c.ty.name, c.res.val.data, i)
                                = c.pre[WireIndex(n, i, c.le) + 1]
               /\ (c.op \in CodecWrites /\ c.ty = Scalar("bool"))
                  => /\ c.res = Ok(1)
                     /\ buf[1] = (IF c.val = <<1>> THEN 1 ELSE 0)
                     /\ \A j \in 2..Len(buf) : buf[j] = c.pre[j]
               /\ (c.op \in CodecReads /\ c.ty = Scalar("bool"))
                  => c.res = Ok(ReadOutput(IF c.pre[1] # 0 THEN <<1>>
                                           ELSE <<0>>, 1))

\* 0xaabbccdd written big-endian: aa bb cc dd.
C17_Witness ==
    /\ Len(hist) = 1
    /\ hist[1].op = "try_write_be"
    /\ hist[1].ty = Scalar("u32")
    /\ hist[1].val = <<52445, 43707>>
    /\ Len(hist[1].pre) = 4
    /\ buf = <<170, 187, 204, 221>>

\* C18: read::<T>(o) on a buffer of length n checks the size first: with
\* o + size_of(T) > n it returns InvalidSize whatever the alignment;
\* otherwise, when the address of byte o is not a multiple of T's alignment,
\* it returns InvalidAlignment{size_of(T), size_of(T), o}; otherwise it
\* returns the value in native layout.  default_read returns T's default in
\* both error cases.
C18_SizeBeforeAlignment ==
    \A i \in 1..Len(hist) :
        LET c == hist[i]
        IN  c.op = "default_read"
            => IF c.offset + size_of(c.ty.name) > Len(c.pre)
               THEN /\ IsErr(c.strict)
                    /\ c.strict.err.kind = "InvalidSize"
                    /\ c.res = Ok(Default(c.ty))
               ELSE IF (base + c.offset) % align_of(c.ty.name) # 0
               THEN /\ c.strict = Err(InvalidAlignment(size_of(c.ty.name),
                                                       size_of(c.ty.name),
                                                       c.offset))
                    /\ c.res = Ok(Default(c.ty))
               ELSE /\ c.strict = Ok(ExpectedDecode(c.ty, c.pre, c.offset,
                                                    c.le))
                    /\ c.res = c.strict

(***************************************************************************)
(* writer.rs: write_array_le / write_array_be of a slice and of a Vec<u8>. *)
(***************************************************************************)
RECURSIVE write_array_from_same_place(_, _, _, _, _, _, _, _)

\* A variant that writes every element at the offset of the first.
write_array_from_same_place(data, vec, offset, ty, vs, i, write_size, le) ==
    IF write_size = PANIC THEN WriteOutput(Panic, data)
    ELSE IF i > Len(vs) THEN WriteOutput(Ok(write_size), data)
    ELSE LET w == Dispatch_write_endian(data, vec, offset, ty, vs[i], le)
         IN  IF IsOk(w.res)
             THEN write_array_from_same_place(
                      w.out, vec, offset, ty, vs, i + 1,
                      UAdd(write_size, get_size(ty, vs[i])), le)
             ELSE w

RECURSIVE write_array_from(_, _, _, _, _, _, _, _)

\* The for loop of write_array_le / write_array_be from element i on, with
\* write_size the sum of get_size so far.
write_array_from(data, vec, offset, ty, vs, i, write_size, le) ==
    IF write_size = PANIC THEN WriteOutput(Panic, data)
    ELSE IF i > Len(vs) THEN WriteOutput(Ok(write_size), data)
    ELSE IF UAdd(offset, write_size) = PANIC THEN WriteOutput(Panic, data)
    ELSE LET w == Dispatch_write_endian(data, vec, UAdd(offset, write_size),
                                        ty, vs[i], le)
         IN  IF IsOk(w.res)
             THEN write_array_from(w.out, vec, offset, ty, vs, i + 1,
                                   UAdd(write_size, get_size(ty, vs[i])), le)
             ELSE w

\* Writer::write_array_le / write_array_be of a slice or array.
Writer_write_array_endian(data, offset, ty, vs, le) ==
    write_array_from(data, FALSE, offset, ty, vs, 1, 0, le)

RECURSIVE sum_get_size(_, _, _)

\* value.iter().map(|val| val.get_size()).sum::<usize>() over elements i..
sum_get_size(ty, vs, i) ==
    IF i > Len(vs) THEN 0
    ELSE UAdd(get_size(ty, vs[i]), sum_get_size(ty, vs, i + 1))

\* Writer::write_array_le / write_array_be of a Vec<u8>: it grows to hold
\* the whole array, then writes the elements.
Vec_write_array_endian(data, offset, ty, vs, le) ==
    LET offset_end == UAdd(sum_get_size(ty, vs, 1), offset)
    IN  IF vs = <<>> THEN WriteOutput(Ok(0), data)
        ELSE IF offset_end = PANIC THEN WriteOutput(Panic, data)
        ELSE write_array_from(resize_if_longer(data, offset_end), TRUE,
                              offset, ty, vs, 1, 0, le)

ArrayOffsets == {0, 2, MaxLen - 3, MaxLen - 2, MaxLen + 1}

ArrayElementTypes == {Scalar("u8"), Scalar("u16"), Test} \cup CustomTypes

InitArray ==
    /\ buf \in Buffers(MaxLen)
    /\ growable \in BOOLEAN
    /\ base = 0
    /\ overflow_checks \in BOOLEAN
    /\ native_le = TRUE
    /\ cursor = 0
    /\ hist = <<>>

WriteArray ==
    \E offset \in ArrayOffsets, ty \in ArrayElementTypes :
        \E vs \in Arrays(ty),
           le \in (IF ty.k = "custom" THEN {TRUE} ELSE BOOLEAN) :
            LET w == Writer_write_array_endian(buf, offset, ty, vs, le)
            IN  /\ ~growable
                /\ hist = <<>>
                /\ hist' = <<ValueCall(IF le THEN "write_array_le"
                                       ELSE "write_array_be",
                                       ty, vs, offset, le, w.res, buf)>>
                /\ buf' = w.out
                /\ UNCHANGED <<growable, base, overflow_checks, native_le,
                               cursor>>

VecWriteArray ==
    \E offset \in ArrayOffsets, ty \in ArrayElementTypes :
        \E vs \in Arrays(ty),
           le \in (IF ty.k = "custom" THEN {TRUE} ELSE BOOLEAN) :
            LET w == Vec_write_array_endian(buf, offset, ty, vs, le)
            IN  /\ growable
                /\ hist = <<>>
                /\ hist' = <<ValueCall(IF le THEN "write_array_le"
                                       ELSE "write_array_be",
                                       ty, vs, offset, le, w.res, buf)>>
                /\ buf' = w.out
                /\ UNCHANGED <<growable, base, overflow_checks, native_le,
                               cursor>>

NextArray == WriteArray \/ VecWriteArray

SpecArray == InitArray /\ [][NextArray]_vars

ArrayWrites == {"write_array_le", "write_array_be"}

\* The size every element of the array declares.
ElementSize(ty) == IF ty.k = "custom" THEN 0 ELSE WireSize(ty)

\* The error the encoder of an element at position at gives in a buffer of
\* len bytes, its offset absolute: <<>> when the element fits.
ElementError(ty, at, len) ==
    IF ty = OffsetErrorTest THEN <<InvalidSize(8, at + 1, len)>>
    ELSE IF ty = CustomErrorTest THEN <<InvalidRead("Custom error!")>>
    ELSE IF ShortLeaf(ty, at, len) = <<>> THEN <<>>
    ELSE <<InvalidSize(ShortLeaf(ty, at, len)[2], ShortLeaf(ty, at, len)[1],
                       len)>>

\* The buffer as write_array finds it once a Vec<u8> has grown.
ArrayData(c, vec) ==
    IF vec /\ c.val # <<>>
    THEN resize_if_longer(c.pre, c.offset + Len(c.val) * ElementSize(c.ty))
    ELSE c.pre

\* The elements (from 0) that fail where write_array puts them.
FailingElements(c, vec) ==
    {k \in 0..(Len(c.val) - 1) :
        ElementError(c.ty, c.offset + k * ElementSize(c.ty),
                     Len(ArrayData(c, vec))) # <<>>}

FirstFailing(c, vec) ==
    CHOOSE k \in FailingElements(c, vec) :
        \A j \in FailingElements(c, vec) : k <= j

\* C19: write_array_le / write_array_be at offset o writes element i at o
\* plus the sum of get_size of the elements before it.  When every element
\* succeeds it returns the sum of all get_size; when element k is the first
\* to fail it returns that element's error with the absolute offset of the
\* failure, the elements before k are written and nothing after element k
\* is.
C19_WriteArray ==
    \A i \in 1..Len(hist) :
        LET c == hist[i]
            s == ElementSize(c.ty)
            data == ArrayData(c, growable)
        IN  c.op \in ArrayWrites
            => IF FailingElements(c, growable) = {}
               THEN /\ c.res = Ok(Len(c.val) * s)
                    /\ buf = (IF c.ty.k = "custom" THEN data
                              ELSE ArrayImage(c.ty, c.val, 1, c.offset, c.le,
                                              data))
               ELSE LET k == FirstFailing(c, growable)
                        written == IF c.ty.k = "custom" THEN data
                                   ELSE ArrayImage(c.ty, SubSeq(c.val, 1, k), 1,
                                                   c.offset, c.le, data)
                    IN  /\ c.res = Err(ElementError(c.ty, c.offset + k * s,
                                                    Len(data))[1])
                        /\ Len(buf) = Len(data)
                        /\ \A j \in 1..Len(buf) :
                            (j <= c.offset + k * s \/ j > c.offset + (k + 1) * s)
                            => buf[j] = written[j]

\* Three u16 at offset MaxLen - 2 of a buffer of MaxLen bytes: the first is
\* written over the last two bytes and the second fails at offset MaxLen.
C19_Witness ==
    /\ Len(hist) = 1
    /\ hist[1].op = "write_array_le"
    /\ ~growable
    /\ hist[1].ty = Scalar("u16")
    /\ hist[1].val = <<<<4386>>, <<4386>>, <<4386>>>>
    /\ hist[1].offset = MaxLen - 2
    /\ Len(hist[1].pre) = MaxLen
    /\ hist[1].res = Err(InvalidSize(2, MaxLen, MaxLen))
    /\ SubSeq(buf, MaxLen - 1, MaxLen) = <<34, 17>>
    /\ SubSeq(buf, 1, MaxLen - 2) = SubSeq(hist[1].pre, 1, MaxLen - 2)

(***************************************************************************)
(* A derived struct whose encoding fails part of the way, written into a   *)
(* slice, or at an offset of a slice or of a Vec<u8>.                      *)
(***************************************************************************)
\* A derived struct whose last field has an encoder that fails.
FailingTail == Struct(<<Field(0, Scalar("u8")), Field(0, OffsetErrorTest)>>)

AtomicTypes == WriteStructTypes \cup {FailingTail}

AtomicValues(ty) ==
    IF ty = FailingTail THEN {<<h, t>> : h \in Values(Scalar("u8")),
                                         t \in CustomValues}
    ELSE Values(ty)

\* Only the little-endian side of the failing encoder is implemented.
AtomicOrders(ty) == IF ty = FailingTail THEN {TRUE} ELSE BOOLEAN

AtomicOffsets == {0, 1, 3, MaxLen - 1}

InitAtomic ==
    /\ buf \in Buffers(MaxLen)
    /\ growable \in BOOLEAN
    /\ base = 0
    /\ overflow_checks \in BOOLEAN
    /\ native_le = TRUE
    /\ cursor = 0
    /\ hist = <<>>

TryWriteStruct ==
    \E ty \in AtomicTypes :
        \E v \in AtomicValues(ty), le \in AtomicOrders(ty) :
            /\ ~growable
            /\ hist = <<>>
            /\ hist' = <<ValueCall(IF le THEN "try_write_le" ELSE "try_write_be",
                                   ty, v, 0, le, try_write(ty, v, buf, le).res,
                                   buf)>>
            /\ buf' = try_write(ty, v, buf, le).out
            /\ UNCHANGED <<growable, base, overflow_checks, native_le, cursor>>

WriteStruct ==
    \E ty \in AtomicTypes, offset \in AtomicOffsets :
        \E v \in AtomicValues(ty), le \in AtomicOrders(ty) :
            LET w == Dispatch_write_endian(buf, growable, offset, ty, v, le)
            IN  /\ hist = <<>>
                /\ hist' = <<ValueCall(IF le THEN "write_le" ELSE "write_be",
                                       ty, v, offset, le, w.res, buf)>>
                /\ buf' = w.out
                /\ UNCHANGED <<growable, base, overflow_checks, native_le,
                               cursor>>

NextAtomic == TryWriteStruct \/ WriteStruct

SpecAtomic == InitAtomic /\ [][NextAtomic]_vars

StructWrites == {"try_write_le", "try_write_be", "write_le", "write_be"}

NoFail == 0 - 1

RECURSIVE FailAt(_, _, _)
RECURSIVE FailAtFields(_, _, _, _)

\* The position of the first scalar or hand-written encoder of the value at
\* position at that fails in a buffer of len bytes; NoFail when none does.
FailAtFields(fields, i, at, len) ==
    IF i > Len(fields) THEN NoFail
    ELSE IF FailAt(fields[i].ty, at + FieldPos(fields, i), len) # NoFail
    THEN FailAt(fields[i].ty, at + FieldPos(fields, i), len)
    ELSE FailAtFields(fields, i + 1, at, len)

FailAt(ty, at, len) ==
    CASE ty.k = "scalar" -> IF at + size_of(ty.name) > len THEN at ELSE NoFail
      [] ty.k = "unit" -> NoFail
      [] ty.k = "custom" -> at
      [] ty.k = "struct" -> FailAtFields(ty.fields, 1, at, len)

\* The buffer the encoder works on: a Vec<u8> has grown to hold the size
\* the value declares.
AtomicData(c, vec) ==
    IF vec THEN resize_if_longer(c.pre, c.offset + WireSize(c.ty)) ELSE c.pre

\* The field of the struct (from 1) in which the encoding fails.
FailingField(c, vec) ==
    CHOOSE k \in 1..Len(c.ty.fields) :
        /\ FailAt(c.ty.fields[k].ty, c.offset + FieldPos(c.ty.fields, k),
                  Len(AtomicData(c, vec))) # NoFail
        /\ \A j \in 1..(k - 1) :
            FailAt(c.ty.fields[j].ty, c.offset + FieldPos(c.ty.fields, j),
                   Len(AtomicData(c, vec))) = NoFail

\* The write of the call fails part of the way or at once.
StructWriteFails(c, vec) ==
    /\ c.op \in StructWrites
    /\ c.ty.k = "struct"
    /\ FailAt(c.ty, c.offset, Len(AtomicData(c, vec))) # NoFail

\* C20 as stated: when the derived write of a struct fails at field k, the
\* bytes of the fields before k hold their encodings and every byte from
\* the start of field k on is unchanged; a growable buffer keeps the length
\* it was given before the encoding.
C20_FieldKUntouched ==
    \A i \in 1..Len(hist) :
        StructWriteFails(hist[i], growable)
        => LET c == hist[i]
               data == AtomicData(c, growable)
               start == c.offset + FieldsSize(c.ty.fields,
                                              FailingField(c, growable) - 1)
           IN  /\ IsErr(c.res)
               /\ Len(buf) = Len(data)
               /\ \A j \in 1..Len(buf) :
                    buf[j] = IF j <= start
                             THEN Image(c.ty, c.val, c.offset, c.le, data)[j]
                             ELSE data[j]

\* C20, amended: when the derived write of a struct fails, every scalar
\* that precedes the failing one in encoding order holds its encoding, also
\* those inside the struct-typed field in which the failure happens, and
\* every byte from the failing scalar on is unchanged; a growable buffer
\* keeps the length it was given before the encoding.
C20_NotAtomic ==
    \A i \in 1..Len(hist) :
        StructWriteFails(hist[i], growable)
        => LET c == hist[i]
               data == AtomicData(c, growable)
               p == FailAt(c.ty, c.offset, Len(data))
           IN  /\ IsErr(c.res)
               /\ Len(buf) = Len(data)
               /\ \A j \in 1..Len(buf) :
                    buf[j] = IF j <= p
                             THEN Image(c.ty, c.val, c.offset, c.le, data)[j]
                             ELSE data[j]

\* Test { first: 0xaa, second } written into four bytes: first is written,
\* second fails with InvalidSize{4, 1, 4}.
C20_Witness ==
    /\ Len(hist) = 1
    /\ ~growable
    /\ hist[1].op = "write_le"
    /\ hist[1].ty = Test
    /\ hist[1].offset = 0
    /\ hist[1].val[1] = <<170>>
    /\ hist[1].pre = Ramp(4, 1)
    /\ hist[1].res = Err(InvalidSize(4, 1, 4))
    /\ buf = <<170, 2, 3, 4>>

\* C21: try_read_le / try_read_be of a fixed-width scalar of size s on a
\* slice b succeed exactly when len(b) >= s; they then report s bytes
\* consumed and the value of b[0..s) alone; on a shorter slice they return
\* InvalidSize{s, 0, len(b)}.
C21_ScalarRead ==
    \A i \in 1..Len(hist) :
        LET c == hist[i]
            s == size_of(c.ty.name)
        IN  (c.op \in CodecReads /\ c.ty.k = "scalar")
            => IF Len(c.pre) >= s
               THEN c.res = Ok(ReadOutput(
                                ExpectedDecode(c.ty, SubSeq(c.pre, 1, s), 0,
                                               c.le), s))
               ELSE c.res = Err(InvalidSize(s, 0, Len(c.pre)))

\* A u32 read from a slice of exactly four bytes, 0xf1 .. 0xf4.
C21_Witness ==
    /\ Len(hist) = 1
    /\ hist[1].op = "try_read_be"
    /\ hist[1].ty = Scalar("u32")
    /\ hist[1].pre = Ramp(4, 241)
    /\ hist[1].res = Ok(ReadOutput(<<62452, 61938>>, 4))


(***************************************************************************)
(* stream/writer.rs: the checked stream writes.  They take the cursor and  *)
(* advance it by size_of::<T>() (by the length of the byte string) first,  *)
(* then make the checked write at the cursor they took.                    *)
(***************************************************************************)
\* A variant that leaves the cursor where it was.
StreamWriter_checked_write_stream_endian_no_advance(stream, ty, size, v, le) ==
    LET w == checked(Dispatch_write_endian(stream.raw, stream.vec,
                                           stream.cursor, ty, v, le))
    IN  [res |-> w.res, stream |-> [stream EXCEPT !.raw = w.out]]

\* StreamWriter::checked_write_stream_le / checked_write_stream_be; size is
\* size_of::<T>().
StreamWriter_checked_write_stream_endian(stream, ty, size, v, le) ==
    LET s == swap_incremented_index(stream.cursor, size)
        w == checked(Dispatch_write_endian(stream.raw, stream.vec, s.index,
                                           ty, v, le))
    IN  IF s.next = PANIC THEN [res |-> Panic, stream |-> stream]
        ELSE [res |-> w.res,
              stream |-> [stream EXCEPT !.raw = w.out, !.cursor = s.next]]

\* StreamWriter::checked_write_stream_bytes.
StreamWriter_checked_write_stream_bytes(stream, bytes) ==
    LET s == swap_incremented_index(stream.cursor, Len(bytes))
        w == checked(Dispatch_write_bytes(stream.raw, stream.vec, s.index,
                                          bytes))
    IN  IF s.next = PANIC THEN [res |-> Panic, stream |-> stream]
        ELSE [res |-> w.res,
              stream |-> [stream EXCEPT !.raw = w.out, !.cursor = s.next]]

(***************************************************************************)
(* A sequence of stream writes on a StreamContainer over a Vec<u8> that    *)
(* starts empty or holds four bytes, as in the tests of                    *)
(* stream_container.rs.                                                    *)
(***************************************************************************)
AppendTypes == {Scalar("u8"), Scalar("u16"), Scalar("u32")}

AppendBuffers == {<<>>, Ramp(4, 1)}

InitAppend ==
    /\ buf \in AppendBuffers
    /\ growable = TRUE
    /\ base = 0
    /\ overflow_checks \in BOOLEAN
    /\ native_le = TRUE
    /\ cursor = 0
    /\ hist = <<>>

AppendEndian ==
    /\ Len(hist) < MaxCalls
    /\ \E ty \in AppendTypes, le \in BOOLEAN :
        \E v \in Values(ty) :
            LET w == StreamWriter_write_stream_endian(Stream, ty, v, le)
            IN  /\ hist' = Append(hist, StreamCall(
                                IF le THEN "write_stream_le"
                                ELSE "write_stream_be",
                                ty, v, 0, le, w.res, buf, w.stream.cursor))
                /\ buf' = w.stream.raw
                /\ cursor' = w.stream.cursor
                /\ UNCHANGED <<growable, base, overflow_checks, native_le>>

AppendBytes ==
    /\ Len(hist) < MaxCalls
    /\ \E bytes \in ByteStrings :
        LET w == StreamWriter_write_stream_bytes(Stream, bytes)
        IN  /\ hist' = Append(hist, StreamCall("write_stream_bytes", Unit,
                                    bytes, Len(bytes), TRUE, w.res, buf,
                                    w.stream.cursor))
            /\ buf' = w.stream.raw
            /\ cursor' = w.stream.cursor
            /\ UNCHANGED <<growable, base, overflow_checks, native_le>>

AppendCheckedEndian ==
    /\ Len(hist) < MaxCalls
    /\ \E ty \in AppendTypes, le \in BOOLEAN :
        \E v \in Values(ty), size \in mem_sizes(ty) :
            LET w == StreamWriter_checked_write_stream_endian(Stream, ty, size,
                                                              v, le)
            IN  /\ hist' = Append(hist, StreamCall(
                                IF le THEN "checked_write_stream_le"
                                ELSE "checked_write_stream_be",
                                ty, v, size, le, w.res, buf, w.stream.cursor))
                /\ buf' = w.stream.raw
                /\ cursor' = w.stream.cursor
                /\ UNCHANGED <<growable, base, overflow_checks, native_le>>

AppendCheckedBytes ==
    /\ Len(hist) < MaxCalls
    /\ \E bytes \in ByteStrings :
        LET w == StreamWriter_checked_write_stream_bytes(Stream, bytes)
        IN  /\ hist' = Append(hist, StreamCall("checked_write_stream_bytes",
                                    Unit, bytes, Len(bytes), TRUE, w.res, buf,
                                    w.stream.cursor))
            /\ buf' = w.stream.raw
            /\ cursor' = w.stream.cursor
            /\ UNCHANGED <<growable, base, overflow_checks, native_le>>

NextAppend ==
    \/ AppendEndian
    \/ AppendBytes
    \/ AppendCheckedEndian
    \/ AppendCheckedBytes

SpecAppend == InitAppend /\ [][NextAppend]_vars

\* The bytes a call is to put in the buffer.
Encoding(c) ==
    IF c.ty.k = "scalar" THEN scalar_bytes(c.ty.name, c.val, c.le) ELSE c.val

RECURSIVE Concatenation(_, _)

\* The encodings of calls 1 .. n, in call order.
Concatenation(h, n) ==
    IF n = 0 THEN <<>> ELSE Concatenation(h, n - 1) \o Encoding(h[n])

\* C22: after any sequence of stream writes of scalars and byte strings on
\* a growable buffer, strict or checked, the buffer is the concatenation of
\* the encodings in call order followed by what is left of the bytes it
\* held at the start, and the cursor is the length of the concatenation: on
\* an empty buffer the cursor is the buffer's length, on a buffer of L
\* bytes the first bytes are overwritten and the buffer grows only past L.
C22_AppendInOrder ==
    LET all == Concatenation(hist, Len(hist))
        start == IF hist = <<>> THEN buf ELSE hist[1].pre
    IN  /\ cursor = Len(all)
        /\ buf = all \o SubSeq(start, Len(all) + 1, Len(start))
        /\ Len(buf) = Max(Len(start), Len(all))
        /\ start = <<>> => cursor = Len(buf)
        /\ \A i \in 1..Len(hist) : hist[i].res = Ok(Len(Encoding(hist[i])))

\* Two writes of a u32 on a Vec<u8> of four bytes leave eight bytes.
C22_Witness ==
    /\ Len(hist) = 2
    /\ hist[1].pre = Ramp(4, 1)
    /\ hist[1].op = "write_stream_le" /\ hist[1].ty = Scalar("u32")
    /\ hist[2].op = "checked_write_stream_be" /\ hist[2].ty = Scalar("u32")
    /\ hist[2].pre = to_le_bytes("u32", hist[1].val)
    /\ buf = hist[2].pre \o to_be_bytes("u32", hist[2].val)
    /\ cursor = 8


(***************************************************************************)
(* writer.rs and stream/writer.rs: the checked array writes, and the array *)
(* writes of a StreamContainer, which forwards write_le / write_be to the  *)
(* buffer it wraps and keeps the trait's loop for the arrays.              *)
(***************************************************************************)
\* usize multiplication.
UMul(a, b) ==
    IF a = PANIC \/ b = PANIC THEN PANIC
    ELSE IF a * b > USIZE_MAX
    THEN IF overflow_checks THEN PANIC ELSE (a * b) % (USIZE_MAX + 1)
    ELSE a * b

\* Writer::write_array_le / write_array_be of a StreamContainer over data.
Container_write_array_endian(data, vec, offset, ty, vs, le) ==
    write_array_from(data, vec, offset, ty, vs, 1, 0, le)

\* Writer::write_array_le / write_array_be of the buffer itself.
Dispatch_write_array_endian(data, vec, offset, ty, vs, le) ==
    IF vec THEN Vec_write_array_endian(data, offset, ty, vs, le)
    ELSE Writer_write_array_endian(data, offset, ty, vs, le)

\* Writer::checked_write_array_le / checked_write_array_be, which no impl
\* overrides; wrapped tells whether the receiver is a StreamContainer.
Writer_checked_write_array_endian(data, vec, wrapped, offset, ty, vs, le) ==
    LET size == sum_get_size(ty, vs, 1)
    IN  IF vs = <<>> THEN WriteOutput(Ok(0), data)
        ELSE IF size = PANIC \/ UAdd(offset, size) = PANIC
        THEN WriteOutput(Panic, data)
        ELSE IF UAdd(offset, size) > Len(data) THEN WriteOutput(Ok(0), data)
        ELSE checked(IF wrapped
                     THEN Container_write_array_endian(data, vec, offset, ty,
                                                       vs, le)
                     ELSE Dispatch_write_array_endian(data, vec, offset, ty,
                                                      vs, le))

\* The count a write returned, or 0, with the stream as the write left it.
unwrap_stream_or(w, default) ==
    [res |-> unwrap_or(w.res, default), stream |-> w.stream]

\* StreamWriter::checked_write_array_stream_le / _be.
StreamWriter_checked_write_array_stream(stream, ty, vs, le) ==
    IF vs = <<>> THEN [res |-> Ok(0), stream |-> stream]
    ELSE IF UAdd(stream.cursor, UMul(get_size(ty, vs[1]), Len(vs))) = PANIC
    THEN [res |-> Panic, stream |-> stream]
    ELSE IF UAdd(stream.cursor, UMul(get_size(ty, vs[1]), Len(vs)))
            > Len(stream.raw)
    THEN [res |-> Ok(0), stream |-> stream]
    ELSE unwrap_stream_or(StreamWriter_write_array_stream(stream, ty, vs, le),
                          0)

(***************************************************************************)
(* The checked writes on a buffer of fixed capacity, on a Vec<u8>, and on  *)
(* a StreamContainer over either.                                          *)
(***************************************************************************)
CheckedCall(op, ty, v, offset, le, res, pre, wrapped) ==
    [op |-> op, ty |-> ty, val |-> v, offset |-> offset, le |-> le,
     res |-> res, pre |-> pre, wrapped |-> wrapped]

InitChecked ==
    /\ buf \in Buffers(MaxLen)
    /\ growable \in BOOLEAN
    /\ base = 0
    /\ overflow_checks \in BOOLEAN
    /\ native_le = TRUE
    /\ cursor = 0
    /\ hist = <<>>

\* The element types and offsets of the checked array writes.  A
\* StreamContainer is taken over the Vec<u8>; over a slice it forwards
\* every call these writes make.
CheckedElementTypes == {Scalar("u8"), Test} \cup CustomTypes

CheckedOffsets == {0, 2, MaxLen - 2, MaxLen + 1}

CheckedWriteArray ==
    /\ hist = <<>>
    /\ \E offset \in CheckedOffsets, ty \in CheckedElementTypes,
       wrapped \in (IF growable THEN BOOLEAN ELSE {FALSE}) :
        \E vs \in Arrays(ty),
           le \in (IF ty.k = "custom" THEN {TRUE} ELSE BOOLEAN) :
            LET w == Writer_checked_write_array_endian(buf, growable, wrapped,
                                                       offset, ty, vs, le)
            IN  /\ hist' = <<CheckedCall(IF le THEN "checked_write_array_le"
                                         ELSE "checked_write_array_be",
                                         ty, vs, offset, le, w.res, buf,
                                         wrapped)>>
                /\ buf' = w.out
                /\ UNCHANGED <<growable, base, overflow_checks, native_le,
                               cursor>>

CheckedWriteArrayStream ==
    /\ hist = <<>>
    /\ \E ty \in ArrayTypes \cup CustomTypes :
        \E vs \in Arrays(ty),
           le \in (IF ty.k = "custom" THEN {TRUE} ELSE BOOLEAN) :
            \E w \in {StreamWriter_checked_write_array_stream(Stream, ty, vs,
                                                              le)} :
                /\ hist' = <<CheckedCall(
                                IF le THEN "checked_write_array_stream_le"
                                ELSE "checked_write_array_stream_be",
                                ty, vs, cursor, le, w.res, buf, TRUE)>>
                /\ buf' = w.stream.raw
                /\ cursor' = w.stream.cursor
                /\ UNCHANGED <<growable, base, overflow_checks, native_le>>

NextChecked ==
    \/ CheckedWriteBytes
    \/ CheckedWrite
    \/ CheckedWriteEndian
    \/ CheckedWriteArray
    \/ CheckedWriteArrayStream

SpecChecked == InitChecked /\ [][NextChecked]_vars

CheckedArrayWrites == {"checked_write_array_le", "checked_write_array_be"}

CheckedOffsetWrites ==
    {"checked_write_bytes", "checked_write", "checked_write_le",
     "checked_write_be"} \cup CheckedArrayWrites

\* The bytes the value of a checked write takes.
CheckedSize(c) ==
    CASE c.op = "checked_write_bytes" -> Len(c.val)
      [] c.op = "checked_write" -> size_of(c.ty.name)
      [] c.op \in {"checked_write_le", "checked_write_be"} ->
            get_size(c.ty, c.val)
      [] OTHER -> sum_get_size(c.ty, c.val, 1)

\* C23: a checked write on a buffer of fixed capacity whose value does not
\* fit at the offset returns 0 and leaves every byte of the buffer as it
\* was.
C23_CheckedWriteAllOrNothing ==
    \A i \in 1..Len(hist) :
        LET c == hist[i]
        IN  (/\ c.op \in CheckedOffsetWrites
             /\ ~growable
             /\ c.offset + CheckedSize(c) > Len(c.pre))
            => (c.res = Ok(0) /\ buf = c.pre)


(***************************************************************************)
(* stream/iter.rs: LeIter and BeIter over a StreamContainer.  The first    *)
(* entry of hist is the construction, which fixes the item type and the    *)
(* byte order; each later entry is one call of next.                       *)
(***************************************************************************)
Some(v) == [tag |-> "Some", val |-> v]

None == [tag |-> "None"]

\* Result::ok.
ok(res) ==
    IF IsOk(res) THEN Some(res.val) ELSE IF IsErr(res) THEN None ELSE Panic

\* Iterator::next of LeIter / BeIter.
Iter_next(stream, ty, le) ==
    LET r == read_stream_endian(stream, ty, le)
    IN  [res |-> ok(r.res), stream |-> r.stream]

IterCall(op, ty, le, res) == [op |-> op, ty |-> ty, le |-> le, res |-> res]

IterTypes ==
    {Scalar("u8"), Scalar("u16"), Scalar("u32"), Test, PaddedTest}

InitIter ==
    /\ buf \in Buffers(MaxLen)
    /\ growable = FALSE
    /\ base = 0
    /\ overflow_checks \in BOOLEAN
    /\ native_le = TRUE
    /\ cursor = 0
    /\ hist = <<>>

\* LeIter::new / BeIter::new.
IterNew ==
    \E ty \in IterTypes, le \in BOOLEAN :
        /\ hist = <<>>
        /\ hist' = <<IterCall(IF le THEN "LeIter::new" ELSE "BeIter::new",
                              ty, le, [tag |-> "New"])>>
        /\ UNCHANGED <<buf, growable, base, overflow_checks, native_le, cursor>>

\* One call of next by a loop that stops at the first None, as collect().
IterNext ==
    /\ hist # <<>>
    /\ hist[Len(hist)].res # None
    /\ Len(hist) <= MaxLen + 2
    /\ LET r == Iter_next(Stream, hist[1].ty, hist[1].le)
       IN  /\ hist' = Append(hist, IterCall("next", hist[1].ty, hist[1].le,
                                            r.res))
           /\ cursor' = r.stream.cursor
    /\ UNCHANGED <<buf, growable, base, overflow_checks, native_le>>

NextIter == IterNew \/ IterNext

SpecIter == InitIter /\ [][NextIter]_vars

\* Call j of next (hist[j + 1]) yields item j - 1 when the stream holds
\* j whole items, and None otherwise.
IterYields ==
    \A j \in 1..(Len(hist) - 1) :
        LET ty == hist[1].ty
            w == WireSize(ty)
        IN  hist[j + 1].res =
                IF j * w <= Len(buf)
                THEN Some(ExpectedDecode(ty, buf, (j - 1) * w, hist[1].le))
                ELSE None

IterDone == hist # <<>> /\ hist[Len(hist)].res = None

\* C24: LeIter / BeIter over n bytes with cursor 0 and items of width w
\* yield floor(n / w) items, item i being the decoding of bytes
\* [i*w, i*w + w), then None.  The iteration ends: every item moves the
\* cursor w bytes towards n, so next is called at most floor(n / w) + 1
\* times, the last call returns None after exactly floor(n / w) items, and
\* the n mod w bytes left over are never yielded.
C24_IterYieldsAll ==
    /\ IterYields
    /\ hist # <<>> =>
          LET w == WireSize(hist[1].ty)
              items == Len(buf) \div w
          IN  /\ w >= 1
              /\ Len(hist) - 1 <= items + 1
              /\ IterDone => (Len(hist) - 2 = items /\ cursor = items * w)
              /\ ~IterDone => (cursor = (Len(hist) - 1) * w /\ cursor <= Len(buf))

\* Two u32 items from eight bytes, then None.
C24_Witness ==
    /\ Len(hist) = 4
    /\ hist[1].op = "BeIter::new" /\ hist[1].ty = Scalar("u32")
    /\ buf = Ramp(8, 1)
    /\ hist[2].res = Some(<<772, 258>>)
    /\ hist[3].res = Some(<<1800, 1286>>)
    /\ hist[4].res = None


\* The first item (from 0) that the buffer ends before, for a list whose
\* count byte is at position at.
FirstCutItem(bytes, at) == (Len(bytes) - at - 1) \div 4

CheckedArrayStreamWrites ==
    {"checked_write_array_stream_le", "checked_write_array_stream_be"}

\* The strict array write that corresponds to a checked array write.
StrictArrayWrite(c) ==
    IF c.op \in CheckedArrayStreamWrites
    THEN LET w == StreamWriter_write_array_stream(
                      [raw |-> c.pre, cursor |-> c.offset, vec |-> growable],
                      c.ty, c.val, c.le)
         IN  WriteOutput(w.res, w.stream.raw)
    ELSE IF c.wrapped
    THEN Container_write_array_endian(c.pre, growable, c.offset, c.ty, c.val,
                                      c.le)
    ELSE Dispatch_write_array_endian(c.pre, growable, c.offset, c.ty, c.val,
                                     c.le)

\* C26: on a growable buffer, directly or in a StreamContainer, the checked
\* array writes behave like the strict array writes: the buffer is
\* extended when the elements reach past its length, all elements are
\* written and the total size is returned; 0 is returned only for an empty
\* array or when an element's encoder fails.
C26_CheckedArrayGrows ==
    \A i \in 1..Len(hist) :
        LET c == hist[i]
            strict == StrictArrayWrite(c)
        IN  (/\ c.op \in CheckedArrayWrites \cup CheckedArrayStreamWrites
             /\ growable
             /\ strict.res # Panic)
            => /\ c.res = unwrap_or(strict.res, 0)
               /\ buf = strict.out
               /\ c.res = Ok(0) => (c.val = <<>> \/ IsErr(strict.res)
                                    \/ strict.res = Ok(0))


(***************************************************************************)
(* stream_container.rs: the offset-addressed writes of a StreamContainer,  *)
(* next to the same write made on the buffer it wraps.                     *)
(***************************************************************************)
\* Writer::write_bytes of a StreamContainer: the trait's write_bytes over
\* the get_sized_mut_slice it forwards.
Container_write_bytes(data, vec, offset, bytes) ==
    Dispatch_write_bytes(data, vec, offset, bytes)

\* Writer::write_le / write_be of a StreamContainer, forwarded to raw.
Container_write_endian(data, vec, offset, ty, v, le) ==
    Dispatch_write_endian(data, vec, offset, ty, v, le)

\* A container call: res is what the container returned, direct and
\* direct_out what the same call returns and leaves on the buffer itself.
WrapCall(op, ty, v, offset, le, res, pre, direct, direct_out) ==
    [op |-> op, ty |-> ty, val |-> v, offset |-> offset, le |-> le,
     res |-> res, pre |-> pre, direct |-> direct, direct_out |-> direct_out]

WrapElementTypes == ArrayElementTypes \cup {FailingTail}

WrapArrays(ty) ==
    IF ty = FailingTail
    THEN UNION {[1..n -> AtomicValues(ty)] : n \in 0..MaxArray}
    ELSE Arrays(ty)

InitWrap ==
    /\ buf \in Buffers(MaxLen)
    /\ growable \in BOOLEAN
    /\ base = 0
    /\ overflow_checks \in BOOLEAN
    /\ native_le = TRUE
    /\ cursor = StreamContainer_new(buf, growable).cursor
    /\ hist = <<>>

WrapWriteBytes ==
    /\ hist = <<>>
    /\ \E offset \in ArrayOffsets, bytes \in ByteStrings :
        LET w == Container_write_bytes(buf, growable, offset, bytes)
            d == Dispatch_write_bytes(buf, growable, offset, bytes)
        IN  /\ hist' = <<WrapCall("write_bytes", Unit, bytes, offset, TRUE,
                                  w.res, buf, d.res, d.out)>>
            /\ buf' = w.out
            /\ UNCHANGED <<growable, base, overflow_checks, native_le, cursor>>

WrapWriteEndian ==
    /\ hist = <<>>
    /\ \E offset \in ArrayOffsets, ty \in WriteTypes \cup CustomTypes :
        \E v \in (IF ty.k = "custom" THEN CustomValues ELSE Values(ty)),
           le \in (IF ty.k = "custom" THEN {TRUE} ELSE BOOLEAN) :
            LET w == Container_write_endian(buf, growable, offset, ty, v, le)
                d == Dispatch_write_endian(buf, growable, offset, ty, v, le)
            IN  /\ hist' = <<WrapCall(IF le THEN "write_le" ELSE "write_be",
                                      ty, v, offset, le, w.res, buf,
                                      d.res, d.out)>>
                /\ buf' = w.out
                /\ UNCHANGED <<growable, base, overflow_checks, native_le,
                               cursor>>

WrapWriteArray ==
    /\ hist = <<>>
    /\ \E offset \in ArrayOffsets, ty \in WrapElementTypes :
        \E vs \in WrapArrays(ty),
           le \in (IF ty.k = "custom" \/ ty = FailingTail
                   THEN {TRUE} ELSE BOOLEAN) :
            LET w == Container_write_array_endian(buf, growable, offset, ty,
                                                  vs, le)
                d == Dispatch_write_array_endian(buf, growable, offset, ty,
                                                 vs, le)
            IN  /\ hist' = <<WrapCall(IF le THEN "write_array_le"
                                      ELSE "write_array_be",
                                      ty, vs, offset, le, w.res, buf,
                                      d.res, d.out)>>
                /\ buf' = w.out
                /\ UNCHANGED <<growable, base, overflow_checks, native_le,
                               cursor>>

NextWrap == WrapWriteBytes \/ WrapWriteEndian \/ WrapWriteArray

SpecWrap == InitWrap /\ [][NextWrap]_vars

\* C27: write_bytes, write_le, write_be, write_array_le and write_array_be
\* on StreamContainer::new(B) return what the same call returns on B and
\* leave the same bytes and length in the buffer, also when an element's
\* encoder fails part of the way through an array, and leave the cursor
\* at 0.
C27_ContainerTransparent ==
    \A i \in 1..Len(hist) :
        /\ hist[i].res = hist[i].direct
        /\ buf = hist[i].direct_out
        /\ cursor = 0


(***************************************************************************)
(* stream/reader.rs and stream/writer.rs: the lenient stream forms next to *)
(* the strict ones, from the same cursor of the same stream.               *)
(***************************************************************************)
\* StreamReader::default_read_stream_le / default_read_stream_be; size is
\* size_of::<T>().
StreamReader_default_read_stream_endian(stream, ty, size, le) ==
    LET s == swap_incremented_index(stream.cursor, size)
    IN  IF s.next = PANIC THEN [res |-> Panic, stream |-> stream]
        ELSE [res |-> Reader_default_read_endian(stream.raw, s.index, ty,
                                                 size, le),
              stream |-> [stream EXCEPT !.cursor = s.next]]

\* A lenient stream call: res and next are the result and the cursor it
\* left, strict and strict_next those of the strict form.
PairCall(op, ty, v, size, le, res, pre, next, strict, strict_next) ==
    [op |-> op, ty |-> ty, val |-> v, offset |-> cursor, size |-> size,
     le |-> le, res |-> res, pre |-> pre, next |-> next, strict |-> strict,
     strict_next |-> strict_next]

InitPair ==
    /\ buf \in Buffers(MaxLen)
    /\ growable \in BOOLEAN
    /\ base = 0
    /\ overflow_checks \in BOOLEAN
    /\ native_le = TRUE
    /\ cursor = 0
    /\ hist = <<>>

DefaultReadStreamEndian ==
    /\ hist = <<>>
    /\ \E ty \in ReadTypes, le \in BOOLEAN :
        \E size \in mem_sizes(ty) :
            LET r == StreamReader_default_read_stream_endian(Stream, ty, size,
                                                             le)
                s == read_stream_endian(Stream, ty, le)
            IN  /\ hist' = <<PairCall(IF le THEN "default_read_stream_le"
                                      ELSE "default_read_stream_be",
                                      ty, <<>>, size, le, r.res, buf,
                                      r.stream.cursor, s.res,
                                      s.stream.cursor)>>
                /\ cursor' = r.stream.cursor
                /\ UNCHANGED <<buf, growable, base, overflow_checks,
                               native_le>>

CheckedWriteStreamEndian ==
    /\ hist = <<>>
    /\ \E ty \in WriteTypes, le \in BOOLEAN :
        \E v \in Values(ty), size \in mem_sizes(ty) :
            LET w == StreamWriter_checked_write_stream_endian(Stream, ty, size,
                                                              v, le)
                s == StreamWriter_write_stream_endian(Stream, ty, v, le)
            IN  /\ hist' = <<PairCall(IF le THEN "checked_write_stream_le"
                                      ELSE "checked_write_stream_be",
                                      ty, v, size, le, w.res, buf,
                                      w.stream.cursor, s.res,
                                      s.stream.cursor)>>
                /\ buf' = w.stream.raw
                /\ cursor' = w.stream.cursor
                /\ UNCHANGED <<growable, base, overflow_checks, native_le>>

NextPair == SetIndex \/ DefaultReadStreamEndian \/ CheckedWriteStreamEndian

SpecPair == InitPair /\ [][NextPair]_vars

\* C28: whenever the strict stream read or write succeeds from the cursor,
\* the lenient form returns the same value or count and leaves the cursor
\* where the strict form leaves it; a checked stream write that returns 0
\* leaves the cursor where it was.
C28_LenientCursor ==
    \A i \in 1..Len(hist) :
        LET c == hist[i]
        IN  /\ IsOk(c.strict) => (c.res = c.strict /\ c.next = c.strict_next)
            /\ (c.op \in {"checked_write_stream_le", "checked_write_stream_be"}
                /\ c.res = Ok(0)) => c.next = c.offset


\* C29: writing the unit value with write_le or write_be at any offset,
\* also past the end, returns Ok(0) and changes nothing: every byte of a
\* fixed buffer, the contents and the length of a growable one.
C29_UnitWriteNoEffect ==
    \A i \in 1..Len(hist) :
        (hist[i].op \in {"write_le", "write_be"} /\ hist[i].ty = Unit)
        => (hist[i].res = Ok(0) /\ buf = hist[i].pre)


\* C29 as the code has it: the unit write returns Ok(0) and leaves a fixed
\* buffer as it was; a growable buffer keeps its bytes and is extended
\* with zeros to the offset when the offset lies past its end.
C29_UnitWriteGrowsToOffset ==
    \A i \in 1..Len(hist) :
        LET c == hist[i]
        IN  (c.op \in {"write_le", "write_be"} /\ c.ty = Unit)
            => /\ c.res = Ok(0)
               /\ buf = IF growable /\ c.offset > Len(c.pre)
                        THEN c.pre \o Zeros(c.offset - Len(c.pre))
                        ELSE c.pre

\* The unit value written at offset 3 of a Vec<u8> of one byte.
C29_Witness ==
    /\ Len(hist) = 1
    /\ growable
    /\ hist[1].op = "write_be" /\ hist[1].ty = Unit
    /\ hist[1].offset = 3
    /\ hist[1].pre = <<241>>
    /\ hist[1].res = Ok(0)
    /\ buf = <<241, 0, 0>>


\* C30: a derived struct codec never reports more bytes than it was given:
\* a successful try_read_le / try_read_be on a slice of n bytes reports at
\* most n bytes consumed, and a successful try_write_le / try_write_be into
\* a destination of n bytes returns a count of at most n.
C30_CountWithinSlice ==
    \A i \in 1..Len(hist) :
        LET c == hist[i]
        IN  (c.ty.k = "struct" /\ IsOk(c.res))
            => /\ c.op \in CodecReads => c.res.val.read_bytes <= Len(c.pre)
               /\ c.op \in CodecWrites => c.res.val <= Len(c.pre)

====
